---- MODULE Spec2Model ----
(***************************************************************************)
(* Bare-metal GPU health-check orchestrator (baremetal_server.py).         *)
(*                                                                         *)
(* The state is the in-memory job store (`jobs`, a dict jobId -> job       *)
(* object), the job objects themselves (`objs`: a Python dict lives as     *)
(* long as a thread references it, also after jobs[jobId] was overwritten),*)
(* one worker thread per accepted Submit (run_job) and, per worker, one    *)
(* node runner per node (run_node_check + RemoteNodeRunner.execute).       *)
(*                                                                         *)
(* Granularity: a section under jobs_lock is one step. A node runner never *)
(* takes the lock; it makes one step per latch check that stands alone, one*)
(* step per remote operation (session open, GPU discovery, each joined with*)
(* the latch check that follows it; one test) and one step for the write of*)
(* its outcome into its node dict. A runner's write that falls inside a    *)
(* locked section of another thread is taken to fall before or after it.   *)
(*                                                                         *)
(* Timestamps: updatedAt is the ordinal of the last write of the field     *)
(* (utc_now() grows from one write to the next); startedAt and completedAt *)
(* record whether the field is present.                                    *)
(*                                                                         *)
(* The pure functions of the test engine and the parsers are applied to    *)
(* bounded inputs under CalcSpec and ParseSpec. The cluster-mode service   *)
(* (ghx_server.py, gpu_check_job.py) is modelled by its shared volume, its *)
(* two database tables, the queue of an SSE client and its status check    *)
(* thread: IngestSpec for the ingestion of result files, WatchSpec for the *)
(* workload watcher and the stop request, BusSpec for the event bus        *)
(* (sse_clients and the threads that publish on it). PoolSpec runs one Job *)
(* with more nodes than the thread pool has workers; LiveSpec is Spec with *)
(* one jobName and fair threads.                                           *)
(***************************************************************************)
EXTENDS Integers, Sequences, FiniteSets, TLC

\* ---------------------------------------------------------------- bounds
MaxJobs == 2        \* Submit requests accepted in one run
MaxNodes == 2       \* nodes of all accepted Submit requests together
MaxTests == 2       \* entries of the `tests` lists of all accepted Submit requests together
MaxLines == 2       \* lines of an output handed to a parser
MaxTokens == 3      \* whitespace-separated tokens of one line
MaxP2PLines == 4    \* lines of an output handed to parse_p2p
MaxNcclLines == 3   \* lines of an output handed to parse_nccl
MaxIngesters == 2   \* ingestion runs of the cluster-mode service that run at the same time
MaxRuns == 2        \* ingestion runs of the cluster-mode service in all
MaxEvents == 3      \* events put on the queue of an SSE client
MaxVersion == 3     \* resource versions the watch stream delivers
PoolNodes == 11     \* nodes of the one Job of PoolSpec
MaxClients == 2     \* clients that open the job-status-stream

\* ------------------------------------------------------------- constants
\* a pool with one thread per node of the Job of PoolSpec
POOL_MAX_PerNode == PoolNodes

POOL_MAX == 10      \* ThreadPoolExecutor(max_workers=min(len(nodes), 10))

\* TEST_ORDER with the nccl block of the `if` chain placed before the p2p block
TEST_ORDER_NcclFirst == <<"nvbandwidth", "nccl", "p2p", "dcgm", "ib">>

TEST_ORDER == <<"nvbandwidth", "p2p", "nccl", "dcgm", "ib">>

NoName == "none"    \* payload without "jobName"
JobNames == {"A"}   \* client-supplied jobName values

Range(s) == {s[k] : k \in DOMAIN s}

Min(a, b) == IF a < b THEN a ELSE b

\* uuid-based id of the n-th job created without jobName
SynthId(n) == "manual-" \o ToString(n)

JobIds == JobNames \cup {SynthId(n) : n \in 1..MaxJobs}

\* the `tests` lists the modelled clients send: empty, one kind, and lists
\* whose order differs from the order of the `if` chain of execute
TestsInputs ==
    {t \in {<<>>, <<"p2p">>, <<"nccl", "p2p">>, <<"ib", "nccl", "p2p">>,
            <<"dcgm", "ib", "nccl", "p2p">>} : Len(t) <= MaxTests}

VARIABLES
    jobs,       \* jobs: Dict[str, job]; here jobId -> index into objs, 0 = no entry
    objs,       \* the job dicts ever created, in creation order
    workers,    \* the run_job threads; workers[k] was started by the k-th Submit
    resp,       \* the last HTTP response: [op, code]
    raisedAt,   \* history: per job dict, what its nodes were doing when its
                \* latch was first raised ("clear": not raised yet)
    calc,       \* one call of a parser or of a test engine function:
                \* [fn, arg, ret]; fn = "none" while the server runs
    volume,     \* cluster mode: the artifacts under /shared/gpu-inspection-results/manual,
                \* in the order glob returns them
    diagnostic_results,  \* cluster mode: the rows of the table diagnostic_results
    diagnostic_jobs,     \* cluster mode: job_id -> status column of diagnostic_jobs
    now,        \* cluster mode: datetime('now'), the ordinal of the last committed write
    ingesters,  \* cluster mode: the threads that run an ingestion
    runs,       \* cluster mode: [started, finished], the ingestion runs so far
    watcher,    \* cluster mode: the workload watcher
    sse,        \* cluster mode: the events put on the queues of the SSE clients
    sse_clients,   \* cluster mode: the client queues registered in the set sse_clients
    client_queue,  \* cluster mode: client -> the messages in its queue.Queue
    streams,       \* cluster mode: client -> its generator of job_status_stream
    publishers     \* cluster mode: the threads that call notify_job_status_change
                   \* or notify_diagnostic_results_update

vars ==
    <<jobs, objs, workers, resp, raisedAt, calc,
      volume, diagnostic_results, diagnostic_jobs, now, ingesters, runs, watcher, sse,
      sse_clients, client_queue, streams, publishers>>

\* the event bus of the cluster-mode service
bus == <<sse_clients, client_queue, streams, publishers>>

\* the variables of the cluster-mode service (ghx_server.py)
cluster ==
    <<volume, diagnostic_results, diagnostic_jobs, now, ingesters, runs, watcher, sse, bus>>

\* the variables of the server
server == <<jobs, objs, workers, resp, raisedAt>>

\* ------------------------------------------------------------ job records
NewNode ==
    [status |-> "pending", startedAt |-> FALSE, completedAt |-> FALSE,
     results |-> <<>>, executionLog |-> "", connection |-> TRUE]

NewJob(job_id, n, tests) ==
    [jobId |-> job_id, status |-> "pending", updatedAt |-> 0, tests |-> tests,
     nodes |-> [k \in 1..n |-> NewNode], cancelled |-> FALSE]

NewRunner ==
    [pc |-> "queued", connection |-> FALSE, results |-> <<>>, out |-> "none",
     pos |-> 1, late |-> 0]

NewWorker(job_id) ==
    [pc |-> "start", job_id |-> job_id, job |-> 0, seen |-> {}, runners |-> <<>>]

\* number of node dicts of the job dicts created so far
RECURSIVE NodeCount(_)
NodeCount(os) == IF os = <<>> THEN 0 ELSE Len(Head(os).nodes) + NodeCount(Tail(os))

\* number of entries of the `tests` lists of the job dicts created so far
RECURSIVE TestCount(_)
TestCount(os) == IF os = <<>> THEN 0 ELSE Len(Head(os).tests) + TestCount(Tail(os))

NodeTerminal == {"passed", "failed", "cancelled", "error"}

\* no parser or engine call is being evaluated
NoCall == [fn |-> "none", arg |-> <<>>, ret |-> <<>>]

\* no status check thread: strategy is the worker thread that is alive
\* ("native": kubernetes_watch_worker, "kubectl": kubectl_watch_worker,
\* "polling": polling_status_check_worker), retry_count its local counter,
\* last_resource_version 0 for None
NoWatcher ==
    [strategy |-> "none", status_check_running |-> FALSE, retry_count |-> 0,
     last_resource_version |-> 0]

\* the cluster-mode service is not running
NoCluster ==
    /\ volume = <<>>
    /\ diagnostic_results = {}
    /\ diagnostic_jobs = <<>>
    /\ now = 0
    /\ ingesters = <<>>
    /\ runs = [started |-> 0, finished |-> 0]
    /\ watcher = NoWatcher
    /\ sse = <<>>
    /\ sse_clients = {}
    /\ client_queue = <<>>
    /\ streams = <<>>
    /\ publishers = <<>>

Init ==
    /\ jobs = [j \in JobIds |-> 0]
    /\ objs = <<>>
    /\ workers = <<>>
    /\ resp = [op |-> "none", code |-> 0]
    /\ raisedAt = <<>>
    /\ calc = NoCall
    /\ NoCluster

\* ------------------------------------------------------------ HTTP handlers

\* int(payload.get("dcgmLevel", 2)): a payload value int() accepts, and one
\* on which it raises ValueError
Level(v) == [numeric |-> TRUE, value |-> v]
NotANumber == [numeric |-> FALSE, value |-> 0]

\* a node payload: which of the required fields it carries, and its auth:
\* "ok" a dict with a type, "notype" a dict without, "missing" no auth at all
GoodNode == [host |-> TRUE, username |-> TRUE, auth |-> "ok"]

\* ensure_payload_fields(node_payload, ["host", "username", "auth"]) and the
\* test of auth_payload that follows it: TRUE when neither raises
NodePayloadOk(nd) == nd.host /\ nd.username /\ nd.auth = "ok"

\* api_create_job reaches `with jobs_lock: jobs[job_id] = job`: no statement
\* before it has raised
Accepted(p) ==
    /\ p.dcgmLevel.numeric
    /\ p.nodes # <<>>
    /\ p.tests # <<>>
    /\ \A k \in DOMAIN p.nodes : NodePayloadOk(p.nodes[k])

\* api_create_job: POST /api/gpu-inspection/create-job with payload p
api_create_job(p) ==
    IF ~Accepted(p)
    THEN /\ resp' = [op |-> "create", code |-> 400]
         /\ UNCHANGED <<jobs, objs, workers, raisedAt>>
    ELSE LET o == Len(objs) + 1
             job_id == IF p.jobName # NoName THEN p.jobName ELSE SynthId(o)
         IN /\ Len(objs) < MaxJobs
            /\ NodeCount(objs) + Len(p.nodes) <= MaxNodes
            /\ TestCount(objs) + Len(p.tests) <= MaxTests
            /\ objs' = Append(objs, NewJob(job_id, Len(p.nodes), p.tests))
            /\ jobs' = [jobs EXCEPT ![job_id] = o]
            /\ workers' = Append(workers, NewWorker(job_id))
            /\ resp' = [op |-> "create", code |-> 200]
            /\ raisedAt' = Append(raisedAt, "clear")

\* the loops `for node in job["nodes"]: if node["status"] in from_: ...`
MarkCancelled(nodes, from_) ==
    [k \in DOMAIN nodes |->
        IF nodes[k].status \in from_
        THEN [nodes[k] EXCEPT !.status = "cancelled", !.completedAt = TRUE]
        ELSE nodes[k]]

\* Stoppable when the status test of api_stop_job lets `completed` through
Stoppable_WithCompleted == {"pending", "running", "cancelling", "completed"}

\* the statuses api_stop_job accepts
Stoppable == {"pending", "running", "cancelling"}

\* StopEffect with one branch for all three statuses: `cancelled` at once,
\* and every Node that is not terminal marked
StopEffect_Eager(job) ==
    [job EXCEPT !.cancelled = TRUE, !.status = "cancelled", !.updatedAt = @ + 1,
                !.nodes = MarkCancelled(@, {"pending", "running"})]

\* the job record api_stop_job leaves behind for an accepted request
StopEffect(job) ==
    LET raised == [job EXCEPT !.cancelled = TRUE] IN
    IF job.status = "running"
    THEN [raised EXCEPT !.status = "cancelled", !.updatedAt = @ + 1,
                        !.nodes = MarkCancelled(@, {"running"})]
    ELSE IF job.status = "cancelling"
    THEN [raised EXCEPT !.status = "cancelled", !.updatedAt = @ + 1,
                        !.nodes = MarkCancelled(@, {"cancelling"})]
    ELSE [raised EXCEPT !.status = "cancelling", !.updatedAt = @ + 1]

\* api_stop_job: POST /api/gpu-inspection/stop-job/<job_id>, all under jobs_lock
api_stop_job(job_id) ==
    LET o == jobs[job_id] IN
    IF o = 0
    THEN /\ resp' = [op |-> "stop", code |-> 404]
         /\ UNCHANGED <<jobs, objs, workers, raisedAt>>
    ELSE IF objs[o].status \notin Stoppable
    THEN /\ resp' = [op |-> "stop", code |-> 400]
         /\ UNCHANGED <<jobs, objs, workers, raisedAt>>
    ELSE /\ objs' = [objs EXCEPT ![o] = StopEffect(@)]
         /\ resp' = [op |-> "stop", code |-> 200]
         /\ raisedAt' = [raisedAt EXCEPT ![o] =
                IF objs[o].cancelled THEN @
                ELSE IF \E k \in DOMAIN objs[o].nodes :
                           objs[o].nodes[k].status \notin NodeTerminal
                THEN "live" ELSE "settled"]
         /\ UNCHANGED <<jobs, workers>>

\* sanitize_job that copies every key of a node dict
sanitize_job_AllKeys(job) == job

\* sanitize_job: the copy of a job dict handed to jsonify; the field
\* `connection` of the node records stands for the key "_connection"
sanitize_job(job) ==
    [f \in DOMAIN job |->
        IF f = "cancelled" THEN job.cancelled
        ELSE IF f = "nodes"
        THEN [k \in DOMAIN job.nodes |->
                 [node_key \in DOMAIN job.nodes[k] \ {"connection"} |->
                     job.nodes[k][node_key]]]
        ELSE job[f]]

\* the `data` of the response of api_get_job for a registered job_id
api_get_job_data(job_id) == sanitize_job(objs[jobs[job_id]])

\* api_get_job: GET /api/gpu-inspection/job/<job_id>, all under jobs_lock
api_get_job(job_id) ==
    /\ resp' = [op |-> "get", code |-> IF jobs[job_id] = 0 THEN 404 ELSE 200]
    /\ UNCHANGED <<jobs, objs, workers, raisedAt>>

\* the `data` of the response of api_list_jobs
api_list_jobs_data == {sanitize_job(objs[jobs[j]]) : j \in {i \in JobIds : jobs[i] # 0}}

\* api_list_jobs: GET /api/gpu-inspection/jobs
api_list_jobs ==
    /\ resp' = [op |-> "list", code |-> 200]
    /\ UNCHANGED <<jobs, objs, workers, raisedAt>>

\* ------------------------------------------------------------- job worker

\* cancelled_flag.is_set() of the Event the worker captured at its start
Flag(w) == objs[workers[w].job].cancelled

\* run_job, first section under jobs_lock, then the submission of the futures
run_job_start(w) ==
    LET o == jobs[workers[w].job_id] IN
    /\ workers[w].pc = "start"
    /\ IF o = 0
       THEN /\ workers' = [workers EXCEPT ![w].pc = "done"]
            /\ UNCHANGED objs
       ELSE /\ objs' = [objs EXCEPT ![o].status = "running", ![o].updatedAt = @ + 1]
            /\ workers' = [workers EXCEPT
                   ![w].pc = "await", ![w].job = o,
                   ![w].runners = [k \in DOMAIN objs[o].nodes |-> NewRunner]]
    /\ UNCHANGED <<jobs, resp, raisedAt>>

\* one iteration of `for future in as_completed(...)`: future i has completed
run_job_await(w, i) ==
    LET wk == workers[w] IN
    /\ wk.pc = "await"
    /\ i \in DOMAIN wk.runners
    /\ i \notin wk.seen
    /\ wk.runners[i].pc = "done"
    /\ workers' = [workers EXCEPT
           ![w].pc = IF Flag(w) THEN "cancel"
                     ELSE IF wk.seen \cup {i} = DOMAIN wk.runners THEN "final"
                     ELSE "await",
           ![w].seen = IF Flag(w) THEN @ ELSE @ \cup {i}]
    /\ UNCHANGED <<jobs, objs, resp, raisedAt>>

\* run_job, the early exit under jobs_lock after the latch was seen raised
run_job_cancel(w) ==
    LET o == jobs[workers[w].job_id] IN
    /\ workers[w].pc = "cancel"
    /\ objs' = IF o = 0 THEN objs
               ELSE [objs EXCEPT ![o].status = "cancelled", ![o].updatedAt = @ + 1,
                                 ![o].nodes = MarkCancelled(@, {"running", "cancelling"})]
    /\ workers' = [workers EXCEPT ![w].pc = "shutdown"]
    /\ UNCHANGED <<jobs, resp, raisedAt>>

\* `return` inside `with ThreadPoolExecutor(...)`: __exit__ is shutdown(wait=True)
run_job_shutdown(w) ==
    LET wk == workers[w] IN
    /\ wk.pc = "shutdown"
    /\ \A i \in DOMAIN wk.runners : wk.runners[i].pc = "done"
    /\ workers' = [workers EXCEPT ![w].pc = "done", ![w].seen = {}]
    /\ UNCHANGED <<jobs, objs, resp, raisedAt>>

\* FinalStatus without the `if cancelled_flag.is_set()` branch
FinalStatus_NoLatch(flag, nodes) ==
    IF \A k \in DOMAIN nodes : nodes[k].status = "passed" THEN "completed"
    ELSE "failed"

\* the status the last section of run_job writes
FinalStatus(flag, nodes) ==
    IF flag THEN "cancelled"
    ELSE IF \A k \in DOMAIN nodes : nodes[k].status = "passed" THEN "completed"
    ELSE "failed"

\* run_job, last section under jobs_lock
run_job_final(w) ==
    LET o == jobs[workers[w].job_id] IN
    /\ workers[w].pc = "final"
    /\ objs' = IF o = 0 THEN objs
               ELSE [objs EXCEPT
                       ![o].updatedAt = @ + 1,
                       ![o].status = FinalStatus(Flag(w), objs[o].nodes),
                       ![o].nodes = IF Flag(w)
                                    THEN MarkCancelled(@, {"running", "cancelling"})
                                    ELSE @]
    /\ workers' = [workers EXCEPT ![w].pc = "done", ![w].seen = {}]
    /\ UNCHANGED <<jobs, resp, raisedAt>>

\* ---------------------------------------------------------------- parsers

\* min(...) of a non-empty collection
SetMin(S) == CHOOSE v \in S : \A u \in S : v <= u

\* The whitespace-separated tokens of the modelled outputs. Of a token the
\* parsers use: whether its first character is a digit (str.isdigit),
\* whether float() accepts it, and the value float() returns.
Tokens == {"0", "10", "1200", "-20", "3rd", "x"}

IsDigit(tok) == tok \in {"0", "10", "1200", "3rd"}

IsFloat(tok) == tok \in {"0", "10", "1200", "-20"}

Float(tok) ==
    CASE tok = "0" -> 0
      [] tok = "10" -> 10
      [] tok = "1200" -> 1200
      [] tok = "-20" -> -20

\* parse_nvbandwidth, the loop `for chunk in parts[1:]` when a token that is
\* not a number is skipped (`continue`) instead of ending the line (`break`)
RECURSIVE ScanChunks_Continue(_, _)
ScanChunks_Continue(chunks, values) ==
    IF chunks = <<>> THEN values
    ELSE IF ~IsFloat(Head(chunks)) THEN ScanChunks_Continue(Tail(chunks), values)
    ELSE IF 10 <= Float(Head(chunks)) /\ Float(Head(chunks)) <= 1200
    THEN ScanChunks_Continue(Tail(chunks), Append(values, Float(Head(chunks))))
    ELSE ScanChunks_Continue(Tail(chunks), values)

\* parse_nvbandwidth, the loop `for chunk in parts[1:]`: `values` after it
RECURSIVE ScanChunks(_, _)
ScanChunks(chunks, values) ==
    IF chunks = <<>> THEN values
    ELSE IF ~IsFloat(Head(chunks)) THEN values
    ELSE IF 10 <= Float(Head(chunks)) /\ Float(Head(chunks)) <= 1200
    THEN ScanChunks(Tail(chunks), Append(values, Float(Head(chunks))))
    ELSE ScanChunks(Tail(chunks), values)

\* parse_nvbandwidth, the loop `for line in output.splitlines()`; a line is
\* the sequence of its tokens, an empty or blank line the empty sequence
RECURSIVE ScanLines(_, _)
ScanLines(lines, values) ==
    IF lines = <<>> THEN values
    ELSE LET parts == Head(lines) IN
         IF parts = <<>> \/ ~IsDigit(parts[1]) THEN ScanLines(Tail(lines), values)
         ELSE ScanLines(Tail(lines), ScanChunks(Tail(parts), values))

parse_nvbandwidth(output) ==
    LET values == ScanLines(output, <<>>) IN
    IF values = <<>> THEN 0 ELSE SetMin(Range(values))

\* `parts[0].isdigit()`: every character of the token is a digit
IsDigits(tok) == tok \in {"0", "10", "1200"}

\* A line of the p2pBandwidthLatencyTest output: mark says which of the two
\* literals the line contains ("begin" for `Bidirectional P2P=Enabled
\* Bandwidth Matrix`, "end" for `P2P=Disabled Latency Matrix`, "text" for
\* neither), parts is `line.split()` of a text line
P2PLine(mark, parts) == [mark |-> mark, parts |-> parts]

\* parse_p2p, the loop `for col_idx, value_str in enumerate(parts[1:])`: the
\* values it appends for the row with index row_idx
RowValues(parts, row_idx) ==
    {Float(parts[c + 2]) : c \in
        {col_idx \in 0..(Len(parts) - 2) :
            /\ IsFloat(parts[col_idx + 2])
            /\ Float(parts[col_idx + 2]) > 0
            /\ row_idx # col_idx}}

\* parse_p2p, the loop `for line in output.splitlines()`: `values` after it
\* (as a set: only its minimum is used)
RECURSIVE ScanP2P(_, _, _, _)
ScanP2P(lines, collecting, row_count, values) ==
    IF lines = <<>> THEN values
    ELSE LET line == Head(lines) IN
         IF line.mark = "begin" THEN ScanP2P(Tail(lines), TRUE, 0, values)
         ELSE IF line.mark = "end" THEN values
         ELSE IF ~collecting THEN ScanP2P(Tail(lines), collecting, row_count, values)
         ELSE IF line.parts = <<>> THEN ScanP2P(Tail(lines), collecting, row_count, values)
         ELSE IF ~IsDigits(line.parts[1])
         THEN ScanP2P(Tail(lines), collecting, row_count, values)
         ELSE ScanP2P(Tail(lines), collecting, row_count + 1,
                      values \cup RowValues(line.parts, row_count))

parse_p2p(output) ==
    LET values == ScanP2P(output, FALSE, 0, {}) IN
    IF values = {} THEN 0 ELSE SetMin(values)

\* A line of the all_reduce_perf output: avg says whether the line contains
\* `Avg bus bandwidth`, parts is `line.split()` without the words of the
\* literal (none of which is a number)
NcclLine(avg, parts) == [avg |-> avg, parts |-> parts]

\* parse_nccl, the loop `for chunk in parts`: <<value>> when it returns,
\* <<>> when it ends without a return
RECURSIVE FirstFloat(_)
FirstFloat(parts) ==
    IF parts = <<>> THEN <<>>
    ELSE IF IsFloat(Head(parts)) THEN <<Float(Head(parts))>>
    ELSE FirstFloat(Tail(parts))

RECURSIVE parse_nccl(_)
parse_nccl(output) ==
    IF output = <<>> THEN 0
    ELSE IF Head(output).avg /\ FirstFloat(Head(output).parts) # <<>>
    THEN FirstFloat(Head(output).parts)[1]
    ELSE parse_nccl(Tail(output))

\* ------------------------------------------------------------ test engine

\* benchmark_for returns None
NoBenchmark == -1

\* two rows of FALLBACK_GPU_BENCHMARKS
GPU_BENCHMARKS ==
    [gpu \in {"RTX 3090", "L40S"} |->
        IF gpu = "RTX 3090" THEN [p2p |-> 18, nccl |-> 7, bw |-> 20]
        ELSE [p2p |-> 28, nccl |-> 9, bw |-> 20]]

\* RemoteNodeRunner.benchmark_for; gpu_type "" is a node without gpuType
benchmark_for(gpu_type, metric) ==
    IF gpu_type = "" THEN NoBenchmark
    ELSE IF gpu_type \notin DOMAIN GPU_BENCHMARKS THEN NoBenchmark
    ELSE GPU_BENCHMARKS[gpu_type][metric]

\* What the remote node does to one call of an engine function:
\*   raised      an upload or session.run raises (transport error, timeout)
\*   exit_code   exit code of the command (of the h2d command of nvbandwidth)
\*   d2h_exit    exit code of the d2h command of nvbandwidth
\*   value       what the parser returns on stdout (h2d stdout of nvbandwidth)
\*   d2h_value   what parse_nvbandwidth returns on the d2h stdout
\*   gpu_type    the node's gpuType, gpu_count the length of its gpuList
\*   in_stdout, in_stderr   the literal of the IB script is in that stream
Remote(raised, exit_code, value, gpu_type, in_stdout, in_stderr) ==
    [raised |-> raised, exit_code |-> exit_code, d2h_exit |-> exit_code,
     value |-> value, d2h_value |-> value, gpu_type |-> gpu_type, gpu_count |-> 8,
     in_stdout |-> in_stdout, in_stderr |-> in_stderr]

\* `except Exception as exc: return {"status": "error", "message": str(exc)}`
ErrorResult == [status |-> "error", message |-> TRUE]

\* PassedBenchmark when a missing benchmark does not pass
PassedBenchmark_Strict(value, benchmark) == benchmark # NoBenchmark /\ value >= benchmark

\* `passed = benchmark is None or value >= benchmark`
PassedBenchmark(value, benchmark) == benchmark = NoBenchmark \/ value >= benchmark

\* `"status": "passed" if passed else "failed"`
BoolResult(passed) ==
    [status |-> IF passed THEN "passed" ELSE "failed", message |-> FALSE]

_run_nvbandwidth(rem) ==
    IF rem.raised THEN ErrorResult
    ELSE IF rem.exit_code # 0 \/ rem.d2h_exit # 0 THEN ErrorResult
    ELSE LET valid_values == {v \in {rem.value, rem.d2h_value} : v > 0} IN
         IF valid_values = {} THEN ErrorResult
         ELSE BoolResult(PassedBenchmark(SetMin(valid_values),
                                         benchmark_for(rem.gpu_type, "bw")))

_run_p2p(rem) ==
    IF rem.raised THEN ErrorResult
    ELSE IF rem.exit_code # 0 THEN ErrorResult
    ELSE IF rem.value <= 0 THEN ErrorResult
    ELSE BoolResult(PassedBenchmark(rem.value, benchmark_for(rem.gpu_type, "p2p")))

\* exit_code and value are those of all_reduce_perf; a failed check or
\* compilation of nccl-tests counts as raised
_run_nccl_tests(rem) ==
    IF rem.gpu_count = 0 THEN ErrorResult
    ELSE IF rem.raised THEN ErrorResult
    ELSE IF rem.exit_code # 0 THEN ErrorResult
    ELSE IF rem.value <= 0 THEN ErrorResult
    ELSE BoolResult(PassedBenchmark(rem.value, benchmark_for(rem.gpu_type, "nccl")))

\* _run_dcgm_diag that reports a non-zero exit code as `error`
_run_dcgm_diag_ErrorOnExit(rem) ==
    IF rem.raised \/ rem.exit_code # 0 THEN ErrorResult
    ELSE BoolResult(TRUE)

_run_dcgm_diag(rem) ==
    IF rem.raised THEN ErrorResult
    ELSE BoolResult(rem.exit_code = 0)

\* output = stdout + stderr; the literal lies in one of the two streams
_run_ib_check(rem) ==
    IF rem.raised THEN ErrorResult
    ELSE LET in_output == rem.in_stdout \/ rem.in_stderr
             passed == rem.exit_code = 0 /\ in_output
             status == IF passed THEN "passed" ELSE "failed"
         IN [status |-> IF ~passed /\ in_output THEN "passed" ELSE status,
             message |-> FALSE]

\* the engine function the `if` chain of execute calls for a kind
run_test(kind, rem) ==
    CASE kind = "nvbandwidth" -> _run_nvbandwidth(rem)
      [] kind = "p2p" -> _run_p2p(rem)
      [] kind = "nccl" -> _run_nccl_tests(rem)
      [] kind = "dcgm" -> _run_dcgm_diag(rem)
      [] kind = "ib" -> _run_ib_check(rem)

\* GPUChecker.run_ib_check of the cluster-mode workload (gpu_check_job.py):
\* enabled is `"ib" in enabled_tests`, rem.raised a TimeoutExpired or another
\* exception of subprocess.run, rem.exit_code its returncode
run_ib_check(enabled, rem) ==
    IF ~enabled THEN "Skipped"
    ELSE IF rem.raised THEN "No Pass"
    ELSE IF rem.exit_code = 0
    THEN IF rem.in_stdout THEN "Pass" ELSE "No Pass"
    ELSE IF rem.in_stdout \/ rem.in_stderr THEN "Pass" ELSE "No Pass"

\* the remote behaviours the modelled nodes show: a call that raises, a
\* command that exits with 2 (with and without the IB literal), a clean run
\* whose output holds no value and no literal, and clean runs above and
\* below the p2p and nccl benchmarks of an RTX 3090
Remotes ==
    {Remote(TRUE, 0, 0, "RTX 3090", FALSE, FALSE),
     Remote(FALSE, 2, 0, "RTX 3090", FALSE, FALSE),
     Remote(FALSE, 2, 0, "RTX 3090", TRUE, FALSE),
     Remote(FALSE, 0, 0, "RTX 3090", FALSE, FALSE),
     Remote(FALSE, 0, 30, "RTX 3090", TRUE, FALSE),
     Remote(FALSE, 0, 5, "RTX 3090", FALSE, TRUE)}

\* ------------------------------------------------------------ node runner

\* number of pool threads of worker w that are executing a runner
Active(w) ==
    Cardinality({k \in DOMAIN workers[w].runners :
                    workers[w].runners[k].pc \notin {"queued", "done"}})

\* first position >= p of TEST_ORDER whose kind is in tests (6: none left):
\* the chain `if "<kind>" in self.tests:` of RemoteNodeRunner.execute
NextPos(tests, p) ==
    LET rest == {q \in p..Len(TEST_ORDER) : TEST_ORDER[q] \in Range(tests)} IN
    IF rest = {} THEN Len(TEST_ORDER) + 1
    ELSE CHOOSE q \in rest : \A r \in rest : q <= r

\* statuses the five _run_* functions return
TestStatuses == {"passed", "failed", "error"}

\* OverallStatus when a result with status `error` does not count against `passed`
OverallStatus_ErrorOk(results) ==
    IF \A k \in DOMAIN results : results[k].status \in {"passed", "skipped", "error"}
    THEN "passed" ELSE "failed"

\* overallStatus of the last return of execute
OverallStatus(results) ==
    IF \A k \in DOMAIN results : results[k].status \in {"passed", "skipped"}
    THEN "passed" ELSE "failed"

RunnerStep(w, i, from_) ==
    /\ w \in DOMAIN workers
    /\ i \in DOMAIN workers[w].runners
    /\ workers[w].runners[i].pc = from_

\* a pool thread picks the future up; run_node_check up to runner.execute()
run_node_check_start(w, i) ==
    LET o == workers[w].job IN
    /\ RunnerStep(w, i, "queued")
    /\ Active(w) < Min(Len(workers[w].runners), POOL_MAX)
    /\ objs' = [objs EXCEPT ![o].nodes[i].status = "running",
                            ![o].nodes[i].startedAt = TRUE]
    /\ workers' = [workers EXCEPT
           ![w].runners[i].pc = "chk_pre",
           ![w].runners[i].connection = objs[o].nodes[i].connection]
    /\ UNCHANGED <<jobs, resp, raisedAt>>

\* AfterCheck when the checks of execute never return early
AfterCheck_NoReturn(r, flag, clear_pc) == [r EXCEPT !.pc = clear_pc]

\* the runner record after the latch was read at one of execute's checks:
\* raised, execute returns "cancelled" with the results it has; clear, it goes on
AfterCheck(r, flag, clear_pc) ==
    IF flag THEN [r EXCEPT !.pc = "ret", !.out = "cancelled"]
    ELSE [r EXCEPT !.pc = clear_pc]

\* the pc before the first selected test, or before the final check
TestPc(pos) == IF pos > Len(TEST_ORDER) THEN "chk_final" ELSE "chk_test"

\* execute: the check before the session is opened, the check before each
\* selected test, and the check after the `with` block with the final return
execute_check(w, i) ==
    LET r == workers[w].runners[i] IN
    /\ w \in DOMAIN workers
    /\ i \in DOMAIN workers[w].runners
    /\ r.pc \in {"chk_pre", "chk_test", "chk_final"}
    /\ workers' = [workers EXCEPT ![w].runners[i] =
           IF r.pc = "chk_pre" THEN AfterCheck(r, Flag(w), "open")
           ELSE IF r.pc = "chk_test" THEN AfterCheck(r, Flag(w), "run_test")
           ELSE AfterCheck([r EXCEPT !.out = OverallStatus(r.results)], Flag(w), "ret")]
    /\ UNCHANGED <<jobs, objs, resp, raisedAt>>

\* execute: `with SSHSession(self.connection) as session` (ok: it connected)
\* and the check that follows it
execute_open(w, i, ok) ==
    LET r == workers[w].runners[i] IN
    /\ RunnerStep(w, i, "open")
    /\ workers' = [workers EXCEPT ![w].runners[i] =
           IF ok /\ r.connection THEN AfterCheck(r, Flag(w), "discover")
           ELSE [r EXCEPT !.pc = "exc"]]
    /\ UNCHANGED <<jobs, objs, resp, raisedAt>>

\* execute: mkdir of the scratch directory, _query_gpu_info (ok: neither
\* raised) and the check that follows them
execute_discover(w, i, ok) ==
    LET r == workers[w].runners[i]
        first == NextPos(objs[workers[w].job].tests, 1)
    IN
    /\ RunnerStep(w, i, "discover")
    /\ workers' = [workers EXCEPT ![w].runners[i] =
           IF ok THEN AfterCheck([r EXCEPT !.pos = first], Flag(w), TestPc(first))
           ELSE [r EXCEPT !.pc = "exc"]]
    /\ UNCHANGED <<jobs, objs, resp, raisedAt>>

\* execute: `result = self._run_<kind>(); results[<kind>] = result`
execute_test(w, i, rem) ==
    LET r == workers[w].runners[i]
        next == NextPos(objs[workers[w].job].tests, r.pos + 1)
        result == run_test(TEST_ORDER[r.pos], rem)
    IN
    /\ RunnerStep(w, i, "run_test")
    /\ workers' = [workers EXCEPT ![w].runners[i] =
           [r EXCEPT !.results = Append(@, [kind |-> TEST_ORDER[r.pos],
                                            status |-> result.status]),
                     !.pos = next,
                     !.pc = TestPc(next),
                     !.late = IF Flag(w) THEN @ + 1 ELSE @]]
    /\ UNCHANGED <<jobs, objs, resp, raisedAt>>

\* the runner record once its thread has left run_node_check
Finished(r) == [NewRunner EXCEPT !.pc = "done", !.late = r.late]

\* run_node_check_return without `node.update(node_result)`
run_node_check_return_NoUpdate(w, i) ==
    LET r == workers[w].runners[i]
        o == workers[w].job
    IN
    /\ RunnerStep(w, i, "ret")
    /\ objs' = [objs EXCEPT ![o].nodes[i] =
           [@ EXCEPT !.status = r.out, !.completedAt = TRUE, !.connection = FALSE]]
    /\ workers' = [workers EXCEPT ![w].runners[i] = Finished(r)]
    /\ UNCHANGED <<jobs, resp, raisedAt>>

\* run_node_check after execute returned: node.update(node_result), status,
\* completedAt, and the finally clause
run_node_check_return(w, i) ==
    LET r == workers[w].runners[i]
        o == workers[w].job
    IN
    /\ RunnerStep(w, i, "ret")
    /\ objs' = [objs EXCEPT ![o].nodes[i] =
           [@ EXCEPT !.results = r.results, !.status = r.out,
                     !.executionLog = "logs", !.completedAt = TRUE,
                     !.connection = FALSE]]
    /\ workers' = [workers EXCEPT ![w].runners[i] = Finished(r)]
    /\ UNCHANGED <<jobs, resp, raisedAt>>

\* run_node_check_except that records the exception as status `error`
run_node_check_except_Error(w, i) ==
    LET r == workers[w].runners[i]
        o == workers[w].job
    IN
    /\ RunnerStep(w, i, "exc")
    /\ objs' = [objs EXCEPT ![o].nodes[i] =
           [@ EXCEPT !.status = "error", !.executionLog = "logs+exception",
                     !.connection = FALSE]]
    /\ workers' = [workers EXCEPT ![w].runners[i] = Finished(r)]
    /\ UNCHANGED <<jobs, resp, raisedAt>>

\* run_node_check, `except Exception`, and the finally clause
run_node_check_except(w, i) ==
    LET r == workers[w].runners[i]
        o == workers[w].job
    IN
    /\ RunnerStep(w, i, "exc")
    /\ objs' = [objs EXCEPT ![o].nodes[i] =
           [@ EXCEPT !.status = "failed", !.executionLog = "logs+exception",
                     !.connection = FALSE]]
    /\ workers' = [workers EXCEPT ![w].runners[i] = Finished(r)]
    /\ UNCHANGED <<jobs, resp, raisedAt>>

\* ---------------------------------------------------------- specification
Nodes == 1..MaxNodes

\* a payload that api_create_job accepts, from which the others are derived
BasePayload ==
    [jobName |-> NoName, nodes |-> <<GoodNode>>, tests |-> <<"p2p">>,
     dcgmLevel |-> Level(2)]

\* the payloads of create-job the modelled clients send: every combination
\* of jobName (or none), one to MaxNodes complete node entries, a tests list
\* and a dcgmLevel of 2 or 5; and BasePayload with one field changed: no
\* nodes, no tests, a node entry without host, username or auth or with an
\* auth without type, a dcgmLevel of 0 and one that is not a number
Payloads ==
    {[jobName |-> nm, nodes |-> [k \in 1..n |-> GoodNode], tests |-> t,
      dcgmLevel |-> Level(d)] :
        nm \in JobNames \cup {NoName}, n \in 1..MaxNodes,
        t \in TestsInputs \ {<<>>}, d \in {2, 5}}
    \cup {[BasePayload EXCEPT !.nodes = <<>>], [BasePayload EXCEPT !.tests = <<>>],
          [BasePayload EXCEPT !.nodes = <<[GoodNode EXCEPT !.host = FALSE]>>],
          [BasePayload EXCEPT !.nodes = <<[GoodNode EXCEPT !.username = FALSE]>>],
          [BasePayload EXCEPT !.nodes = <<[GoodNode EXCEPT !.auth = "missing"]>>],
          [BasePayload EXCEPT !.nodes = <<[GoodNode EXCEPT !.auth = "notype"]>>],
          [BasePayload EXCEPT !.dcgmLevel = Level(0)],
          [BasePayload EXCEPT !.dcgmLevel = NotANumber]}

Submit ==
    /\ \E p \in Payloads : api_create_job(p)
    /\ UNCHANGED <<calc, cluster>>
Stop ==
    /\ \E job_id \in JobIds : api_stop_job(job_id)
    /\ UNCHANGED <<calc, cluster>>
WorkerStart ==
    /\ \E w \in DOMAIN workers : run_job_start(w)
    /\ UNCHANGED <<calc, cluster>>
WorkerAwait ==
    /\ \E w \in DOMAIN workers, i \in Nodes : run_job_await(w, i)
    /\ UNCHANGED <<calc, cluster>>
WorkerCancel ==
    /\ \E w \in DOMAIN workers : run_job_cancel(w)
    /\ UNCHANGED <<calc, cluster>>
WorkerShutdown ==
    /\ \E w \in DOMAIN workers : run_job_shutdown(w)
    /\ UNCHANGED <<calc, cluster>>
WorkerFinal ==
    /\ \E w \in DOMAIN workers : run_job_final(w)
    /\ UNCHANGED <<calc, cluster>>
RunnerStart ==
    /\ \E w \in DOMAIN workers, i \in Nodes : run_node_check_start(w, i)
    /\ UNCHANGED <<calc, cluster>>
RunnerCheck ==
    /\ \E w \in DOMAIN workers, i \in Nodes : execute_check(w, i)
    /\ UNCHANGED <<calc, cluster>>
RunnerOpen ==
    /\ \E w \in DOMAIN workers, i \in Nodes, ok \in BOOLEAN : execute_open(w, i, ok)
    /\ UNCHANGED <<calc, cluster>>
RunnerDiscover ==
    /\ \E w \in DOMAIN workers, i \in Nodes, ok \in BOOLEAN : execute_discover(w, i, ok)
    /\ UNCHANGED <<calc, cluster>>
RunnerTest ==
    /\ \E w \in DOMAIN workers, i \in Nodes, rem \in Remotes : execute_test(w, i, rem)
    /\ UNCHANGED <<calc, cluster>>
RunnerReturn ==
    /\ \E w \in DOMAIN workers, i \in Nodes : run_node_check_return(w, i)
    /\ UNCHANGED <<calc, cluster>>
RunnerExcept ==
    /\ \E w \in DOMAIN workers, i \in Nodes : run_node_check_except(w, i)
    /\ UNCHANGED <<calc, cluster>>

Next ==
    \/ Submit
    \/ Stop
    \/ WorkerStart
    \/ WorkerAwait
    \/ WorkerCancel
    \/ WorkerShutdown
    \/ WorkerFinal
    \/ RunnerStart
    \/ RunnerCheck
    \/ RunnerOpen
    \/ RunnerDiscover
    \/ RunnerTest
    \/ RunnerReturn
    \/ RunnerExcept

Spec == Init /\ [][Next]_vars

\* the steps of the run_job threads and of their pool threads
Threads ==
    \/ WorkerStart
    \/ WorkerAwait
    \/ WorkerCancel
    \/ WorkerShutdown
    \/ WorkerFinal
    \/ RunnerStart
    \/ RunnerCheck
    \/ RunnerOpen
    \/ RunnerDiscover
    \/ RunnerTest
    \/ RunnerReturn
    \/ RunnerExcept

\* create-job requests for jobName A with one node and one test
SubmitNamed ==
    /\ api_create_job([BasePayload EXCEPT !.jobName = "A"])
    /\ UNCHANGED <<calc, cluster>>

LiveNext == SubmitNamed \/ Stop \/ Threads

\* the server under requests that name their Job, every thread that can take
\* a step taking one eventually (every remote command returns or times out)
LiveSpec == Init /\ [][LiveNext]_vars /\ WF_vars(Threads)

\* the state in which api_create_job leaves a server that has just started
\* and is sent payload p
AfterSubmit(p) ==
    LET job_id == IF p.jobName # NoName THEN p.jobName ELSE SynthId(1) IN
    /\ objs = <<NewJob(job_id, Len(p.nodes), p.tests)>>
    /\ jobs = [j \in JobIds |-> IF j = job_id THEN 1 ELSE 0]
    /\ workers = <<NewWorker(job_id)>>
    /\ resp = [op |-> "create", code |-> 200]
    /\ raisedAt = <<"clear">>
    /\ calc = NoCall
    /\ NoCluster

\* one Job, submitted with any of the accepted payloads, its worker and its
\* runners, Stop, and the two read requests
ReadInit == \E p \in Payloads : Accepted(p) /\ AfterSubmit(p)

Get ==
    /\ \E job_id \in JobIds : api_get_job(job_id)
    /\ UNCHANGED <<calc, cluster>>
List ==
    /\ api_list_jobs
    /\ UNCHANGED <<calc, cluster>>

NextRead ==
    \/ Stop
    \/ WorkerStart
    \/ WorkerAwait
    \/ WorkerCancel
    \/ WorkerShutdown
    \/ WorkerFinal
    \/ RunnerStart
    \/ RunnerCheck
    \/ RunnerOpen
    \/ RunnerDiscover
    \/ RunnerTest
    \/ RunnerReturn
    \/ RunnerExcept
    \/ Get
    \/ List

ReadSpec == ReadInit /\ [][NextRead]_vars

\* the tests lists of the Jobs with one Node: every selection of kinds,
\* written against the order of the `if` chain of execute
NodeTestsInputs ==
    {SelectSeq(<<"ib", "dcgm", "nccl", "p2p", "nvbandwidth">>, LAMBDA kind : kind \in K) :
        K \in (SUBSET Range(TEST_ORDER)) \ {{}}}

\* one Job with one Node and any selection of tests, its worker, its runner
\* and Stop
NodeInit == \E tests \in NodeTestsInputs : AfterSubmit([BasePayload EXCEPT !.tests = tests])

NextNode ==
    \/ Stop
    \/ WorkerStart
    \/ WorkerAwait
    \/ WorkerCancel
    \/ WorkerShutdown
    \/ WorkerFinal
    \/ RunnerStart
    \/ RunnerCheck
    \/ RunnerOpen
    \/ RunnerDiscover
    \/ RunnerTest
    \/ RunnerReturn
    \/ RunnerExcept

NodeSpec == NodeInit /\ [][NextNode]_vars

\* ------------------------------------------- parser and engine function calls

SeqsUpTo(S, n) == UNION {[1..k -> S] : k \in 0..n}

\* the outputs handed to parse_nvbandwidth
Outputs == SeqsUpTo(SeqsUpTo(Tokens, MaxTokens), MaxLines)

\* parsed values around the benchmarks of GPU_BENCHMARKS, and 0 (nothing parsed)
ValueInputs == {0, 6, 7, 9, 18, 20, 28, 30}

\* gpuType values: none, the two of GPU_BENCHMARKS, and one without benchmarks
GpuTypes == {"", "RTX 3090", "L40S", "Unknown"}

\* the remote behaviours handed to the engine functions
RemoteInputs ==
    [raised : BOOLEAN, exit_code : {0, 2}, d2h_exit : {0, 2}, value : ValueInputs,
     d2h_value : {0, 7, 30}, gpu_type : GpuTypes, gpu_count : {0, 8},
     in_stdout : BOOLEAN, in_stderr : BOOLEAN]

\* the remote behaviours handed to run_ib_check, which reads no value
IbInputs ==
    {rem \in RemoteInputs :
        rem.value = 0 /\ rem.d2h_value = 0 /\ rem.d2h_exit = 0
        /\ rem.gpu_type = "" /\ rem.gpu_count = 8}

\* one call is about to be evaluated; the server has just started
CalcInit ==
    /\ jobs = [j \in JobIds |-> 0]
    /\ objs = <<>>
    /\ workers = <<>>
    /\ resp = [op |-> "none", code |-> 0]
    /\ raisedAt = <<>>
    /\ NoCluster
    /\ calc \in
          {[fn |-> "parse_nvbandwidth", arg |-> output, ret |-> <<>>] : output \in Outputs}
          \cup {[fn |-> "run_test", arg |-> [kind |-> kind, rem |-> rem], ret |-> <<>>] :
                    kind \in Range(TEST_ORDER), rem \in RemoteInputs}
          \cup {[fn |-> "run_ib_check", arg |-> [enabled |-> e, rem |-> rem], ret |-> <<>>] :
                    e \in BOOLEAN, rem \in IbInputs}

Call_parse_nvbandwidth ==
    /\ calc.fn = "parse_nvbandwidth" /\ calc.ret = <<>>
    /\ calc' = [calc EXCEPT !.ret = <<parse_nvbandwidth(calc.arg)>>]
    /\ UNCHANGED <<server, cluster>>

Call_run_test ==
    /\ calc.fn = "run_test" /\ calc.ret = <<>>
    /\ calc' = [calc EXCEPT !.ret = <<run_test(calc.arg.kind, calc.arg.rem)>>]
    /\ UNCHANGED <<server, cluster>>

Call_run_ib_check ==
    /\ calc.fn = "run_ib_check" /\ calc.ret = <<>>
    /\ calc' = [calc EXCEPT !.ret = <<run_ib_check(calc.arg.enabled, calc.arg.rem)>>]
    /\ UNCHANGED <<server, cluster>>

CalcNext ==
    \/ Call_parse_nvbandwidth
    \/ Call_run_test
    \/ Call_run_ib_check

CalcSpec == CalcInit /\ [][CalcNext]_vars

\* ------------------------------------------------------------ the thread pool

\* run_node_check from `runner.execute()` to its end as one step, for a node
\* whose session cannot be opened while the latch is clear: the first check
\* of execute passes, SSHSession raises, and the `except Exception` branch
\* and the finally clause run. The steps joined here touch only the runner's
\* own node dict.
run_node_check_refused(w, i) ==
    LET r == workers[w].runners[i]
        o == workers[w].job
    IN
    /\ RunnerStep(w, i, "chk_pre")
    /\ ~Flag(w)
    /\ objs' = [objs EXCEPT ![o].nodes[i] =
           [@ EXCEPT !.status = "failed", !.executionLog = "logs+exception",
                     !.connection = FALSE]]
    /\ workers' = [workers EXCEPT ![w].runners[i] = Finished(r)]
    /\ UNCHANGED <<jobs, resp, raisedAt>>

\* one Job of PoolNodes nodes has been submitted to a server that has just
\* started
PoolInit == AfterSubmit([BasePayload EXCEPT !.nodes = [k \in 1..PoolNodes |-> GoodNode]])

PoolRunnerStart ==
    /\ \E w \in DOMAIN workers, i \in 1..PoolNodes : run_node_check_start(w, i)
    /\ UNCHANGED <<calc, cluster>>

PoolRunnerRefused ==
    /\ \E w \in DOMAIN workers, i \in 1..PoolNodes : run_node_check_refused(w, i)
    /\ UNCHANGED <<calc, cluster>>

\* the worker of the Job starts and submits the futures; the pool threads run
\* them, and no host accepts the session
PoolNext ==
    \/ WorkerStart
    \/ PoolRunnerStart
    \/ PoolRunnerRefused

PoolSpec == PoolInit /\ [][PoolNext]_vars

\* --------------------------------------------------- parse_p2p and parse_nccl

\* the lines handed to parse_p2p: the two literal lines, a blank line, the
\* column header, rows of a row label and up to two positive values, a row
\* with a value that is not positive and a row with a token that is no number
P2PLines ==
    {P2PLine("begin", <<>>), P2PLine("end", <<>>), P2PLine("text", <<>>),
     P2PLine("text", <<"x", "0", "10">>),
     P2PLine("text", <<"0", "0", "10">>), P2PLine("text", <<"0", "x", "10">>)}
    \cup {P2PLine("text", <<"0">> \o cols) : cols \in SeqsUpTo({"10", "1200"}, 2)}

\* the lines handed to parse_nccl
NcclLines ==
    {NcclLine(avg, parts) : avg \in BOOLEAN, parts \in SeqsUpTo({"10", "1200", "x"}, 2)}

ParseInit ==
    /\ jobs = [j \in JobIds |-> 0]
    /\ objs = <<>>
    /\ workers = <<>>
    /\ resp = [op |-> "none", code |-> 0]
    /\ raisedAt = <<>>
    /\ NoCluster
    /\ calc \in
          {[fn |-> "parse_p2p", arg |-> output, ret |-> <<>>] :
               output \in SeqsUpTo(P2PLines, MaxP2PLines)}
          \cup {[fn |-> "parse_nccl", arg |-> output, ret |-> <<>>] :
                    output \in SeqsUpTo(NcclLines, MaxNcclLines)}

Call_parse_p2p ==
    /\ calc.fn = "parse_p2p" /\ calc.ret = <<>>
    /\ calc' = [calc EXCEPT !.ret = <<parse_p2p(calc.arg)>>]
    /\ UNCHANGED <<server, cluster>>

Call_parse_nccl ==
    /\ calc.fn = "parse_nccl" /\ calc.ret = <<>>
    /\ calc' = [calc EXCEPT !.ret = <<parse_nccl(calc.arg)>>]
    /\ UNCHANGED <<server, cluster>>

ParseNext ==
    \/ Call_parse_p2p
    \/ Call_parse_nccl

ParseSpec == ParseInit /\ [][ParseNext]_vars

\* ------------------------------------- cluster mode: ingestion of artifacts
\* (ghx_server.py)
\*
\* Granularity: sqlite serialises the transactions of the connections. An
\* ingestion thread makes one step for the reads it does for a file
\* (is_manual_file_processed and the SELECT of save_manual_diagnostic_result)
\* and one step for the transaction that follows (UPDATE or INSERT, the UPDATE
\* of diagnostic_jobs, commit).

ClusterJobs == {"manual-1-a", "manual-2-b"}

\* `test_results.get('dcgm', 'Skipped')`: the key is not in test_results
Missing == "missing"

\* what the workload reports; a missing performance_pass reads as False
Contents ==
    {[performance_pass |-> TRUE, dcgm |-> "Pass", ib |-> "Pass"],
     [performance_pass |-> FALSE, dcgm |-> "Pass", ib |-> "Pass"],
     [performance_pass |-> TRUE, dcgm |-> "No Pass", ib |-> "Pass"],
     [performance_pass |-> TRUE, dcgm |-> "Pass", ib |-> "No Pass"],
     [performance_pass |-> TRUE, dcgm |-> Missing, ib |-> "Skipped"],
     [performance_pass |-> TRUE, dcgm |-> "Skipped", ib |-> Missing]}

\* the JSON document GPUChecker writes for a Job on node n1
Artifact(job_id, content) ==
    [job_id |-> job_id, node_name |-> "n1", performance_pass |-> content.performance_pass,
     dcgm |-> content.dcgm, ib |-> content.ib]

\* save_result_to_pvc writes each document twice: {node_name}_{timestamp}.json
\* (stamp is the ordinal of the timestamp) and {node_name}_latest.json
Stamped(stamp, data) == [node |-> data.node_name, stamp |-> stamp, latest |-> FALSE, data |-> data]

LatestFile(data) == [node |-> data.node_name, stamp |-> 0, latest |-> TRUE, data |-> data]

\* the orders in which glob can return a set of files
Listings(files) ==
    {l \in [1..Cardinality(files) -> files] : \A f \in files : \E i \in DOMAIN l : l[i] = f}

\* the manual directory after one workload run, and after a second run of the
\* same or of another Job on the node
Volumes ==
    UNION ({Listings({Stamped(1, Artifact("manual-1-a", a)), LatestFile(Artifact("manual-1-a", a))}) :
                a \in Contents}
           \cup {Listings({Stamped(1, Artifact("manual-1-a", a)), Stamped(2, Artifact(job_id, b)),
                           LatestFile(Artifact(job_id, b))}) :
                    a \in Contents, job_id \in ClusterJobs, b \in Contents})

\* is_manual_file_processed: for a latest file any row of the node counts; for
\* a stamped file the job_id is taken from the first two `-` segments of the
\* file name, which are part of the node name
is_manual_file_processed(file, results) ==
    IF file.latest
    THEN \E row \in results : row.node_name = file.node
    ELSE \E row \in results : row.job_id = file.node

\* inspection_result_of without the health checks
inspection_result_of_PerformanceOnly(data) ==
    IF data.performance_pass THEN "Pass" ELSE "No Pass"

\* save_manual_diagnostic_result, `inspection_result`
inspection_result_of(data) ==
    LET dcgm_result == IF data.dcgm = Missing THEN "Skipped" ELSE data.dcgm
        ib_result == IF data.ib = Missing THEN "Skipped" ELSE data.ib
        health_pass == /\ (dcgm_result = "Pass" \/ dcgm_result = "Skipped")
                       /\ (ib_result = "Pass" \/ ib_result = "Skipped")
    IN IF data.performance_pass /\ health_pass THEN "Pass" ELSE "No Pass"

\* the columns save_manual_diagnostic_result writes from a document
RowOf(data, created_at, updated_at) ==
    [job_id |-> data.job_id, node_name |-> data.node_name,
     performance_pass |-> data.performance_pass, dcgm |-> data.dcgm, ib |-> data.ib,
     inspection_result |-> inspection_result_of(data),
     created_at |-> created_at, updated_at |-> updated_at]

\* `SELECT created_at FROM diagnostic_results WHERE job_id = ? AND node_name = ?`
ExistingRecord(data, results) ==
    \E row \in results : row.job_id = data.job_id /\ row.node_name = data.node_name

\* the UPDATE of save_manual_diagnostic_result has 14 `?` and is executed with
\* a tuple of 15 values ('manual', node_name, gpu_type, ...): sqlite3 raises
\* ProgrammingError before the statement runs
UpdatePlaceholders == 14

\* the UPDATE executed with as many values as it has placeholders
UpdateBindings_Matching == UpdatePlaceholders

UpdateBindings == 15

\* the database: the two tables and the clock
DB == [results |-> diagnostic_results, jobs |-> diagnostic_jobs, time |-> now]

\* `UPDATE diagnostic_jobs SET status = 'completed' ... WHERE job_id = ?`
JobCompleted(job_statuses, job_id) ==
    [j \in DOMAIN job_statuses |-> IF j = job_id THEN "completed" ELSE job_statuses[j]]

\* save_manual_diagnostic_result whose INSERT replaces the row of the pair
save_manual_diagnostic_result_Replace(data, existing, db) ==
    LET same(row) == row.job_id = data.job_id /\ row.node_name = data.node_name IN
    [raised |-> FALSE,
     db |-> [results |-> {row \in db.results : ~same(row)}
                           \cup {RowOf(data, db.time + 1, db.time + 1)},
             jobs |-> JobCompleted(db.jobs, data.job_id),
             time |-> db.time + 1]]

\* save_manual_diagnostic_result from the statement behind the SELECT on:
\* existing is what the SELECT returned; raised says the function raised, db
\* is the database it leaves
save_manual_diagnostic_result(data, existing, db) ==
    LET same(row) == row.job_id = data.job_id /\ row.node_name = data.node_name IN
    IF existing
    THEN IF UpdateBindings # UpdatePlaceholders
         THEN [raised |-> TRUE, db |-> db]
         ELSE [raised |-> FALSE,
               db |-> [results |-> {IF same(row) THEN RowOf(data, row.created_at, db.time + 1)
                                    ELSE row : row \in db.results},
                       jobs |-> JobCompleted(db.jobs, data.job_id),
                       time |-> db.time + 1]]
    ELSE IF \E row \in db.results : same(row)
    THEN [raised |-> TRUE, db |-> db]
    ELSE [raised |-> FALSE,
          db |-> [results |-> db.results \cup {RowOf(data, db.time + 1, db.time + 1)},
                  jobs |-> JobCompleted(db.jobs, data.job_id),
                  time |-> db.time + 1]]

\* an ingestion thread: trigger is who started it ("watcher":
\* handle_job_completion, "operator": POST collect-manual-results,
\* "background": background_collection), i the index of the file under work
Idle == [trigger |-> "none", i |-> 0, pc |-> "idle", existing |-> FALSE, processed_count |-> 0]

Triggers == {"watcher", "operator", "background"}

\* `json_files = glob.glob(pattern)` and the start of the loop over the files
start_ingestion(t, trigger) ==
    /\ ingesters[t] = Idle
    /\ runs.started < MaxRuns
    /\ ingesters' = [ingesters EXCEPT ![t] = [Idle EXCEPT !.trigger = trigger, !.i = 1, !.pc = "check"]]
    /\ runs' = [runs EXCEPT !.started = @ + 1]
    /\ UNCHANGED <<volume, diagnostic_results, diagnostic_jobs, now, watcher, sse>>

\* the loop body up to the SELECT of save_manual_diagnostic_result
ingest_check(t) ==
    LET g == ingesters[t] IN
    /\ g.pc = "check"
    /\ g.i <= Len(volume)
    /\ ingesters' =
         [ingesters EXCEPT ![t] =
            IF is_manual_file_processed(volume[g.i], diagnostic_results)
            THEN [g EXCEPT !.i = @ + 1]
            ELSE [g EXCEPT !.pc = "write",
                           !.existing = ExistingRecord(volume[g.i].data, diagnostic_results)]]
    /\ UNCHANGED <<volume, diagnostic_results, diagnostic_jobs, now, runs, watcher, sse>>

\* the transaction of save_manual_diagnostic_result and the rest of the loop
\* body: `processed_count += 1`, or the `except` that goes on with the next file
ingest_write(t) ==
    LET g == ingesters[t]
        out == save_manual_diagnostic_result(volume[g.i].data, g.existing, DB)
    IN /\ g.pc = "write"
       /\ diagnostic_results' = out.db.results
       /\ diagnostic_jobs' = out.db.jobs
       /\ now' = out.db.time
       /\ ingesters' =
            [ingesters EXCEPT ![t] =
               [g EXCEPT !.i = @ + 1, !.pc = "check", !.existing = FALSE,
                         !.processed_count = IF out.raised THEN @ ELSE @ + 1]]
       /\ UNCHANGED <<volume, runs, watcher, sse>>

\* notify_diagnostic_results_update
ResultsUpdated == [type |-> "diagnostic_results_updated", job_id |-> "", status |-> ""]

\* the end of the loop: handle_job_completion notifies when it processed a
\* file, the collect-manual-results request whenever the run succeeded,
\* background_collection never
finish_ingestion(t) ==
    LET g == ingesters[t] IN
    /\ g.pc = "check"
    /\ g.i > Len(volume)
    /\ ingesters' = [ingesters EXCEPT ![t] = Idle]
    /\ runs' = [runs EXCEPT !.finished = @ + 1]
    /\ sse' = IF \/ g.trigger = "operator"
                 \/ (g.trigger = "watcher" /\ g.processed_count > 0)
              THEN Append(sse, ResultsUpdated) ELSE sse
    /\ UNCHANGED <<volume, diagnostic_results, diagnostic_jobs, now, watcher>>

\* the service has started on a volume the workloads have written; both Jobs
\* are in diagnostic_jobs
IngestInit ==
    /\ jobs = [j \in JobIds |-> 0]
    /\ objs = <<>>
    /\ workers = <<>>
    /\ resp = [op |-> "none", code |-> 0]
    /\ raisedAt = <<>>
    /\ calc = NoCall
    /\ volume \in Volumes
    /\ diagnostic_results = {}
    /\ diagnostic_jobs = [j \in ClusterJobs |-> "Running"]
    /\ now = 0
    /\ ingesters = [t \in 1..MaxIngesters |-> Idle]
    /\ runs = [started |-> 0, finished |-> 0]
    /\ watcher = NoWatcher
    /\ sse = <<>>
    /\ sse_clients = {}
    /\ client_queue = <<>>
    /\ streams = <<>>
    /\ publishers = <<>>

IngestStart ==
    /\ \E t \in DOMAIN ingesters, trigger \in Triggers : start_ingestion(t, trigger)
    /\ UNCHANGED <<server, calc, bus>>

IngestCheck ==
    /\ \E t \in DOMAIN ingesters : ingest_check(t)
    /\ UNCHANGED <<server, calc, bus>>

IngestWrite ==
    /\ \E t \in DOMAIN ingesters : ingest_write(t)
    /\ UNCHANGED <<server, calc, bus>>

IngestFinish ==
    /\ \E t \in DOMAIN ingesters : finish_ingestion(t)
    /\ UNCHANGED <<server, calc, bus>>

IngestNext ==
    \/ IngestStart
    \/ IngestCheck
    \/ IngestWrite
    \/ IngestFinish

IngestSpec == IngestInit /\ [][IngestNext]_vars

\* ------------------------------------------ cluster mode: workload watcher
\* (ghx_server.py)
\*
\* Granularity: the status check thread handles one event, one line of
\* kubectl output or one Job of a polling round per step, the ingestion it
\* calls included (handle_job_completion runs in the same thread); a request
\* is one step. One SSE client is connected.

\* `max_retries = 10` of kubernetes_watch_worker and kubectl_watch_worker
max_retries == 10

\* str.lower() on the status strings that occur
Lower(str) ==
    CASE str = "Pending" -> "pending"
      [] str = "Running" -> "running"
      [] str = "Succeeded" -> "succeeded"
      [] str = "Completed" -> "completed"
      [] str = "Failed" -> "failed"
      [] str = "Unknown" -> "unknown"
      [] str = "Error" -> "error"
      [] str = "ContainerCreating" -> "containercreating"
      [] OTHER -> str

\* convert_kubectl_status_to_standard; ready is [ready_count, total_count]
convert_kubectl_status_to_standard(kubectl_status, ready) ==
    LET status == Lower(kubectl_status) IN
    IF ready.ready_count = ready.total_count /\ status = "running" THEN "Running"
    ELSE IF ready.ready_count > 0 /\ status = "running" THEN "Running"
    ELSE CASE status = "pending" -> "Pending"
           [] status = "running" -> "Running"
           [] status = "succeeded" -> "Completed"
           [] status = "failed" -> "Failed"
           [] status = "unknown" -> "Unknown"
           [] status = "crashloopbackoff" -> "Failed"
           [] status = "error" -> "Failed"
           [] status = "completed" -> "Completed"
           [] OTHER -> kubectl_status

\* `if pod_status_standard in ['Succeeded', 'Failed', 'Completed']`
TerminalStatuses == {"Succeeded", "Failed", "Completed"}

\* notify_job_status_change
StatusChange(job_id, status) == [type |-> "job_status_change", job_id |-> job_id, status |-> status]

\* handle_job_completion, the loop over the files: the database and
\* processed_count after it
RECURSIVE IngestFiles(_, _, _)
IngestFiles(files, db, processed_count) ==
    IF files = <<>> THEN [db |-> db, processed_count |-> processed_count]
    ELSE IF is_manual_file_processed(Head(files), db.results)
    THEN IngestFiles(Tail(files), db, processed_count)
    ELSE LET data == Head(files).data
             out == save_manual_diagnostic_result(data, ExistingRecord(data, db.results), db)
         IN IngestFiles(Tail(files), out.db,
                        IF out.raised THEN processed_count ELSE processed_count + 1)

\* handle_job_completion(job_id) on the database db: the Job ran on node n1,
\* whose files are all files of the volume; without a file it returns at once
handle_job_completion(job_id, db) ==
    IF volume = <<>> THEN [db |-> db, processed_count |-> 0]
    ELSE IngestFiles(volume, db, 0)

\* the status check thread has found status pod_status for the workload of
\* job_id, stored as db_status: the body of
\* `if pod_status_standard.lower() != db_job['status'].lower()` of
\* handle_pod_status_change, which kubectl_watch_worker repeats
status_changed(job_id, pod_status) ==
    LET written == [DB EXCEPT !.jobs[job_id] = pod_status]
        done == IF pod_status \in TerminalStatuses
                THEN handle_job_completion(job_id, written)
                ELSE [db |-> written, processed_count |-> 0]
    IN /\ diagnostic_results' = done.db.results
       /\ diagnostic_jobs' = done.db.jobs
       /\ now' = done.db.time
       /\ runs' = IF pod_status \in TerminalStatuses
                  THEN [started |-> runs.started + 1, finished |-> runs.finished + 1]
                  ELSE runs
       /\ sse' = IF done.processed_count > 0
                 THEN sse \o <<StatusChange(job_id, pod_status), ResultsUpdated>>
                 ELSE Append(sse, StatusChange(job_id, pod_status))

\* handle_pod_status_change for a pod of job_id in phase phase
handle_pod_status_change(job_id, phase) ==
    IF job_id \notin DOMAIN diagnostic_jobs
    THEN UNCHANGED <<diagnostic_results, diagnostic_jobs, now, runs, sse>>
    ELSE LET pod_status_standard ==
                 convert_kubectl_status_to_standard(
                     Lower(phase),
                     IF phase = "Running" THEN [ready_count |-> 1, total_count |-> 1]
                     ELSE [ready_count |-> 0, total_count |-> 1])
         IN IF Lower(pod_status_standard) # Lower(diagnostic_jobs[job_id])
            THEN status_changed(job_id, pod_status_standard)
            ELSE UNCHANGED <<diagnostic_results, diagnostic_jobs, now, runs, sse>>

\* pod_status_callback; the pod cache is not part of the state
pod_status_callback(event) ==
    IF event.type \in {"MODIFIED", "ADDED"}
    THEN handle_pod_status_change(event.job_id, event.phase)
    ELSE UNCHANGED <<diagnostic_results, diagnostic_jobs, now, runs, sse>>

\* kubernetes_watch_worker, the body of the loop over the watch stream: the
\* resource version of the event is kept, then the callback is called
watch_event(event) ==
    /\ watcher' = [watcher EXCEPT !.last_resource_version = event.resource_version]
    /\ pod_status_callback(event)
    /\ UNCHANGED <<volume, ingesters>>

\* kubectl_watch_worker, the handling of one line of `kubectl get pods --watch`
kubectl_line(line) ==
    /\ IF line.job_id \notin DOMAIN diagnostic_jobs
       THEN UNCHANGED <<diagnostic_results, diagnostic_jobs, now, runs, sse>>
       ELSE LET pod_status == convert_kubectl_status_to_standard(Lower(line.status), line.ready)
            IN IF Lower(pod_status) # Lower(diagnostic_jobs[line.job_id])
               THEN status_changed(line.job_id, pod_status)
               ELSE UNCHANGED <<diagnostic_results, diagnostic_jobs, now, runs, sse>>
    /\ UNCHANGED <<volume, ingesters, watcher>>

\* polling_status_check_worker for one active Job: k8s is what
\* get_kubernetes_job_status returns, <<>> for None
poll_job(job_id, k8s) ==
    /\ job_id \in DOMAIN diagnostic_jobs
    /\ Lower(diagnostic_jobs[job_id]) \in {"pending", "running", "unknown", "containercreating"}
    /\ IF k8s = <<>>
       THEN /\ diagnostic_jobs' = [diagnostic_jobs EXCEPT ![job_id] = "unknown"]
            /\ sse' = Append(sse, StatusChange(job_id, "unknown"))
            /\ UNCHANGED <<diagnostic_results, now, runs>>
       ELSE IF Lower(diagnostic_jobs[job_id]) # Lower(k8s[1])
       THEN status_changed(job_id, k8s[1])
       ELSE UNCHANGED <<diagnostic_results, diagnostic_jobs, now, runs, sse>>
    /\ UNCHANGED <<volume, ingesters, watcher>>

\* start_kubernetes_watch_thread
start_kubernetes_watch_thread(w) ==
    IF w.status_check_running THEN w
    ELSE [w EXCEPT !.strategy = "native", !.status_check_running = TRUE, !.retry_count = 0]

\* start_kubectl_watch_thread
start_kubectl_watch_thread(w) ==
    IF w.status_check_running THEN w
    ELSE [w EXCEPT !.strategy = "kubectl", !.status_check_running = TRUE, !.retry_count = 0]

\* start_polling_status_check_thread
start_polling_status_check_thread(w) ==
    [w EXCEPT !.strategy = "polling", !.status_check_running = TRUE, !.retry_count = 0]

\* start_status_check_thread, called when the service starts
start_status_check_thread(kubernetes_client) ==
    /\ watcher' =
         IF watcher.status_check_running THEN watcher
         ELSE IF kubernetes_client THEN start_kubernetes_watch_thread(watcher)
         ELSE start_kubectl_watch_thread(watcher)
    /\ UNCHANGED <<volume, diagnostic_results, diagnostic_jobs, now, ingesters, runs, sse>>

\* a watch worker leaves its loop (`break`) after it has called the starter
\* of its fallback, which gave the watcher w: the thread that runs afterwards
\* is the one the starter has started, if any
worker_exits(strategy, w) ==
    IF w.strategy # strategy THEN w ELSE [w EXCEPT !.strategy = "none"]

\* the `except Exception` of kubernetes_watch_worker
kubernetes_watch_exception ==
    LET counted == [watcher EXCEPT !.retry_count = @ + 1] IN
    /\ watcher' =
         IF counted.retry_count >= max_retries
         THEN worker_exits("native", start_kubectl_watch_thread(counted))
         ELSE counted
    /\ UNCHANGED <<volume, diagnostic_results, diagnostic_jobs, now, ingesters, runs, sse>>

\* the `except Exception` of kubectl_watch_worker
kubectl_watch_exception ==
    LET counted == [watcher EXCEPT !.retry_count = @ + 1] IN
    /\ watcher' =
         IF counted.retry_count >= max_retries
         THEN worker_exits("kubectl", start_polling_status_check_thread(counted))
         ELSE counted
    /\ UNCHANGED <<volume, diagnostic_results, diagnostic_jobs, now, ingesters, runs, sse>>

\* stop_gpu_inspection_job: the workload is deleted (whether or not the
\* deletion succeeds) and the row of the Job is updated
stop_gpu_inspection_job(job_id) ==
    /\ diagnostic_jobs' =
         [j \in DOMAIN diagnostic_jobs |-> IF j = job_id THEN "stopped" ELSE diagnostic_jobs[j]]
    /\ UNCHANGED <<volume, diagnostic_results, now, ingesters, runs, watcher, sse>>

\* the events of the watch stream, the lines of kubectl and the results of
\* get_kubernetes_job_status
PodEvents ==
    [type : {"MODIFIED", "ADDED", "DELETED"}, job_id : ClusterJobs,
     phase : {"Pending", "Running", "Succeeded", "Failed", "Unknown"},
     resource_version : 1..MaxVersion]

KubectlLines ==
    [job_id : ClusterJobs, status : {"Pending", "Running", "Completed", "Error", "ContainerCreating"},
     ready : {[ready_count |-> 0, total_count |-> 1], [ready_count |-> 1, total_count |-> 1]}]

PollResults == {<<>>, <<"Running">>, <<"Completed">>, <<"Failed">>}

\* the service has created the Job manual-1-a and has not started its status
\* check thread yet; the workload has written nothing, or its two files
WatchInit ==
    /\ jobs = [j \in JobIds |-> 0]
    /\ objs = <<>>
    /\ workers = <<>>
    /\ resp = [op |-> "none", code |-> 0]
    /\ raisedAt = <<>>
    /\ calc = NoCall
    /\ volume \in {<<>>} \cup
         UNION {Listings({Stamped(1, Artifact("manual-1-a", a)), LatestFile(Artifact("manual-1-a", a))}) :
                    a \in {c \in Contents : c.dcgm = "Pass" /\ c.ib = "Pass"}}
    /\ diagnostic_results = {}
    /\ diagnostic_jobs = [j \in {"manual-1-a"} |-> "pending"]
    /\ now = 0
    /\ ingesters = <<>>
    /\ runs = [started |-> 0, finished |-> 0]
    /\ watcher = NoWatcher
    /\ sse = <<>>
    /\ sse_clients = {}
    /\ client_queue = <<>>
    /\ streams = <<>>
    /\ publishers = <<>>

StartWatcher ==
    /\ \E kubernetes_client \in BOOLEAN : start_status_check_thread(kubernetes_client)
    /\ UNCHANGED <<server, calc, bus>>

NativeEvent ==
    /\ watcher.strategy = "native"
    /\ Len(sse) + 2 <= MaxEvents
    /\ watcher.last_resource_version < MaxVersion
    /\ \E event \in PodEvents :
           /\ event.resource_version = watcher.last_resource_version + 1
           /\ watch_event(event)
    /\ UNCHANGED <<server, calc, bus>>

NativeException ==
    /\ watcher.strategy = "native"
    /\ kubernetes_watch_exception
    /\ UNCHANGED <<server, calc, bus>>

KubectlLine ==
    /\ watcher.strategy = "kubectl"
    /\ Len(sse) + 2 <= MaxEvents
    /\ \E line \in KubectlLines : kubectl_line(line)
    /\ UNCHANGED <<server, calc, bus>>

KubectlException ==
    /\ watcher.strategy = "kubectl"
    /\ kubectl_watch_exception
    /\ UNCHANGED <<server, calc, bus>>

Poll ==
    /\ watcher.strategy = "polling"
    /\ Len(sse) + 2 <= MaxEvents
    /\ \E job_id \in ClusterJobs, k8s \in PollResults : poll_job(job_id, k8s)
    /\ UNCHANGED <<server, calc, bus>>

StopJob ==
    /\ \E job_id \in ClusterJobs : stop_gpu_inspection_job(job_id)
    /\ UNCHANGED <<server, calc, bus>>

WatchNext ==
    \/ StartWatcher
    \/ NativeEvent
    \/ NativeException
    \/ KubectlLine
    \/ KubectlException
    \/ Poll
    \/ StopJob

WatchSpec == WatchInit /\ [][WatchNext]_vars

\* ------------------------------------------------ cluster mode: event bus
\* (ghx_server.py)
\*
\* Granularity: one step per iteration of `for client in sse_clients` and per
\* iteration of the generator of job_status_stream; the threads that publish
\* are the status check thread ("watcher") and a request thread ("request").
\* `now` is the clock time.time() reads.

Clients == 1..MaxClients

Callers == {"watcher", "request"}

\* a thread that is not publishing; in a publish, start is the content of
\* sse_clients and size its length when the set iterator was created, visited
\* the clients the iterator has returned
NoPublish == [pc |-> "idle", message |-> <<>>, visited |-> {}, size |-> 0, start |-> {}]

\* where a thread goes on when its notify function has returned:
\* handle_pod_status_change calls handle_job_completion after
\* notify_job_status_change
AfterNotify(t, message) ==
    IF t = "watcher" /\ message.type = "job_status_change"
    THEN [NoPublish EXCEPT !.pc = "ingest"]
    ELSE NoPublish

\* notify_job_status_change and notify_diagnostic_results_update up to the
\* `for`: the message is built, and without a client the function returns
notify(t, type) ==
    LET message == [type |-> type, timestamp |-> now + 1] IN
    /\ now' = now + 1
    /\ publishers' = [publishers EXCEPT ![t] =
           IF sse_clients = {} THEN AfterNotify(t, message)
           ELSE [pc |-> "notify", message |-> message, visited |-> {},
                 size |-> Cardinality(sse_clients), start |-> sse_clients]]

\* handle_pod_status_change has written a terminal status and calls
\* notify_job_status_change
notify_job_status_change(t) ==
    /\ publishers[t].pc = "idle"
    /\ now + 2 <= MaxEvents
    /\ notify(t, "job_status_change")
    /\ UNCHANGED <<runs, sse_clients, client_queue, streams>>

\* handle_job_completion, called by handle_pod_status_change, has processed
\* a file and calls notify_diagnostic_results_update
handle_job_completion_notify(t) ==
    /\ publishers[t].pc = "ingest"
    /\ runs' = [started |-> runs.started + 1, finished |-> runs.finished + 1]
    /\ notify(t, "diagnostic_results_updated")
    /\ UNCHANGED <<sse_clients, client_queue, streams>>

\* the collect-manual-results request calls notify_diagnostic_results_update
notify_diagnostic_results_update(t) ==
    /\ publishers[t].pc = "idle"
    /\ now < MaxEvents
    /\ notify(t, "diagnostic_results_updated")
    /\ UNCHANGED <<runs, sse_clients, client_queue, streams>>

\* one iteration of `for client in sse_clients`: the set iterator raises
\* RuntimeError when the set has changed its size since the iterator was
\* created; it returns every client that has been in the set all the time,
\* and may or may not return one added meanwhile. client.put() on a
\* queue.Queue() without maxsize neither blocks nor raises, so
\* disconnected_clients stays empty. The RuntimeError leaves the notify
\* function and ends handle_pod_status_change in its `except Exception`.
notify_next(t, client) ==
    LET pub == publishers[t] IN
    /\ pub.pc = "notify"
    /\ IF Cardinality(sse_clients) # pub.size
       THEN /\ publishers' = [publishers EXCEPT ![t] = [NoPublish EXCEPT !.pc = "raised"]]
            /\ UNCHANGED client_queue
       ELSE \/ /\ client \in sse_clients \ pub.visited
               /\ client_queue' = [client_queue EXCEPT ![client] = Append(@, pub.message)]
               /\ publishers' = [publishers EXCEPT ![t].visited = @ \cup {client}]
            \/ /\ (sse_clients \cap pub.start) \subseteq pub.visited
               /\ publishers' = [publishers EXCEPT ![t] = AfterNotify(t, pub.message)]
               /\ UNCHANGED client_queue
    /\ UNCHANGED <<now, runs, sse_clients, streams>>

\* the thread whose publish raised has logged the exception and is ready for
\* the next event or request
notify_raised(t) ==
    /\ publishers[t].pc = "raised"
    /\ publishers' = [publishers EXCEPT ![t] = NoPublish]
    /\ UNCHANGED <<now, runs, sse_clients, client_queue, streams>>

\* job_status_stream, generate() up to its loop
job_status_stream(client) ==
    /\ streams[client].pc = "new"
    /\ sse_clients' = sse_clients \cup {client}
    /\ streams' = [streams EXCEPT ![client].pc = "open"]
    /\ UNCHANGED <<now, runs, client_queue, publishers>>

\* generate(), `message = client_queue.get_nowait(); yield message`
generate_yield(client) ==
    /\ streams[client].pc = "open"
    /\ client_queue[client] # <<>>
    /\ streams' = [streams EXCEPT ![client].received = Append(@, Head(client_queue[client]))]
    /\ client_queue' = [client_queue EXCEPT ![client] = Tail(@)]
    /\ UNCHANGED <<now, runs, sse_clients, publishers>>

\* generate(), GeneratorExit and `finally: sse_clients.discard(client_queue)`
generate_exit(client) ==
    /\ streams[client].pc = "open"
    /\ sse_clients' = sse_clients \ {client}
    /\ streams' = [streams EXCEPT ![client].pc = "closed"]
    /\ UNCHANGED <<now, runs, client_queue, publishers>>

\* the service has started; no client has opened the stream
BusInit ==
    /\ jobs = [j \in JobIds |-> 0]
    /\ objs = <<>>
    /\ workers = <<>>
    /\ resp = [op |-> "none", code |-> 0]
    /\ raisedAt = <<>>
    /\ calc = NoCall
    /\ volume = <<>>
    /\ diagnostic_results = {}
    /\ diagnostic_jobs = <<>>
    /\ now = 0
    /\ ingesters = <<>>
    /\ runs = [started |-> 0, finished |-> 0]
    /\ watcher = NoWatcher
    /\ sse = <<>>
    /\ sse_clients = {}
    /\ client_queue = [c \in Clients |-> <<>>]
    /\ streams = [c \in Clients |-> [pc |-> "new", received |-> <<>>]]
    /\ publishers = [t \in Callers |-> NoPublish]

\* the variables the bus leaves alone
nobus == <<server, calc, volume, diagnostic_results, diagnostic_jobs, ingesters, watcher, sse>>

WatcherNotify ==
    /\ notify_job_status_change("watcher")
    /\ UNCHANGED nobus

WatcherIngest ==
    /\ handle_job_completion_notify("watcher")
    /\ UNCHANGED nobus

RequestNotify ==
    /\ notify_diagnostic_results_update("request")
    /\ UNCHANGED nobus

NotifyNext ==
    /\ \E t \in Callers, client \in Clients : notify_next(t, client)
    /\ UNCHANGED nobus

NotifyRaised ==
    /\ \E t \in Callers : notify_raised(t)
    /\ UNCHANGED nobus

StreamOpen ==
    /\ \E client \in Clients : job_status_stream(client)
    /\ UNCHANGED nobus

StreamYield ==
    /\ \E client \in Clients : generate_yield(client)
    /\ UNCHANGED nobus

StreamExit ==
    /\ \E client \in Clients : generate_exit(client)
    /\ UNCHANGED nobus

BusNext ==
    \/ WatcherNotify
    \/ WatcherIngest
    \/ RequestNotify
    \/ NotifyNext
    \/ NotifyRaised
    \/ StreamOpen
    \/ StreamYield
    \/ StreamExit

BusSpec == BusInit /\ [][BusNext]_vars

\* ------------------------------------------------------------------ claims
Registered == {j \in JobIds : jobs[j] # 0}

\* the job dict stored under jobs[j]
Job(j) == objs[jobs[j]]

\* C1: a Job whose status is `completed` has every one of its Nodes in
\* status `passed`.
C1_CompletedAllPassed ==
    \A j \in Registered :
        Job(j).status = "completed" =>
            \A k \in DOMAIN Job(j).nodes : Job(j).nodes[k].status = "passed"

\* C2: if a Job's cancel latch is raised then the Job's status is `cancelled`
\* or `cancelling`, also when Stop was accepted while the Job was `pending`
\* and the worker starts afterwards.
C2_LatchImpliesCancelled ==
    \A j \in Registered :
        Job(j).cancelled => Job(j).status \in {"cancelled", "cancelling"}

\* C3: once Stop has raised a Job's latch and the status is `cancelled`, the
\* status is `cancelled` in every later state: no later write changes it to
\* `running`, `completed` or `failed`.
C3_StaysCancelled ==
    [][\A o \in DOMAIN objs :
          objs[o].cancelled /\ objs[o].status = "cancelled"
              => objs'[o].status = "cancelled"]_vars

\* the status changes of a Node record that the lifecycle allows
NodeSteps ==
    {<<"pending", "running">>} \cup {<<"running", t>> : t \in NodeTerminal}

\* C4: every status change of a Node record is a step of
\* pending -> running -> {passed, failed, cancelled, error}; a Node that has
\* reached a terminal status never changes status again.
C4_NodeLifecycle ==
    [][\A o \in DOMAIN objs : \A k \in DOMAIN objs[o].nodes :
          objs'[o].nodes[k].status # objs[o].nodes[k].status
              => <<objs[o].nodes[k].status, objs'[o].nodes[k].status>> \in NodeSteps]_vars

\* all node runners that exist, as pairs <<worker, node index>>
Runners ==
    {wi \in (DOMAIN workers) \X (1..MaxNodes) : wi[2] \in DOMAIN workers[wi[1]].runners}

Runner(wi) == workers[wi[1]].runners[wi[2]]

\* C5: after a Job's cancel latch is raised, no node runner of that Job
\* starts a further test.
C5_NoTestAfterLatch == \A wi \in Runners : Runner(wi).late = 0

\* C5 as amended: a runner starts at most one test after the latch was
\* raised (the test whose latch check preceded the raise); the check before
\* the next test stops it.
C5_AtMostOneLateTest == \A wi \in Runners : Runner(wi).late <= 1

\* a runner started a test after the raise and the next check stopped it
\* before the second selected test
C5_Witness ==
    \E wi \in Runners :
        /\ Runner(wi).late = 1
        /\ Runner(wi).pc = "ret"
        /\ Runner(wi).out = "cancelled"
        /\ Len(Runner(wi).results) = 1
        /\ Len(objs[workers[wi[1]].job].tests) = 2

\* C6: the cancel latch stored in jobs[jobId] is monotonic: once raised it
\* is raised in every later state, whatever Submit, Stop and worker steps
\* follow.
C6_LatchMonotonic ==
    [][\A j \in Registered : Job(j).cancelled => objs'[jobs'[j]].cancelled]_vars

\* C7: Stop on a Job whose status is pending, running or cancelling raises
\* the latch and, in the same step, sets the status to `cancelled` and every
\* Node that is not yet terminal to `cancelled` with completedAt set.
C7_StopCancelsAll ==
    [][\A j \in Registered :
          api_stop_job(j) /\ Job(j).status \in {"pending", "running", "cancelling"}
              => /\ objs'[jobs[j]].cancelled
                 /\ objs'[jobs[j]].status = "cancelled"
                 /\ \A k \in DOMAIN Job(j).nodes :
                       Job(j).nodes[k].status \notin NodeTerminal
                           => /\ objs'[jobs[j]].nodes[k].status = "cancelled"
                              /\ objs'[jobs[j]].nodes[k].completedAt]_vars

\* C7 as amended: an accepted Stop raises the latch in one step; from
\* `running` it sets the status to `cancelled` and every `running` Node to
\* `cancelled` with completedAt set, and leaves every other Node as it is;
\* from `cancelling` it sets `cancelled` and from `pending` it sets
\* `cancelling`, and in both cases no Node changes.
C7_StopByStatus ==
    [][\A j \in Registered :
          api_stop_job(j) /\ Job(j).status \in {"pending", "running", "cancelling"}
              => LET old == Job(j)
                     new == objs'[jobs[j]]
                 IN /\ new.cancelled
                    /\ new.status = IF old.status = "pending" THEN "cancelling"
                                    ELSE "cancelled"
                    /\ \A k \in DOMAIN old.nodes :
                          new.nodes[k] =
                             IF old.status = "running" /\ old.nodes[k].status = "running"
                             THEN [old.nodes[k] EXCEPT !.status = "cancelled",
                                                       !.completedAt = TRUE]
                             ELSE old.nodes[k]]_vars

\* Stop was accepted on a running Job with one Node running and one pending
C7_Witness ==
    /\ resp = [op |-> "stop", code |-> 200]
    /\ \E j \in Registered :
          /\ Job(j).cancelled
          /\ Job(j).status = "cancelled"
          /\ \E k \in DOMAIN Job(j).nodes :
                Job(j).nodes[k].status = "cancelled" /\ Job(j).nodes[k].completedAt
          /\ \E k \in DOMAIN Job(j).nodes : Job(j).nodes[k].status = "pending"

\* C8: Stop on a Job whose status is not pending, running or cancelling
\* returns an error and leaves the whole Job record unchanged: status,
\* updatedAt, every Node record and the latch.
C8_RejectedStopNoChange ==
    [][\A j \in Registered :
          api_stop_job(j) /\ Job(j).status \notin {"pending", "running", "cancelling"}
              => /\ resp' = [op |-> "stop", code |-> 400]
                 /\ jobs' = jobs
                 /\ objs' = objs
                 /\ workers' = workers]_vars

\* Stop was answered 400 on a completed Job, whose latch is still clear
C8_Witness ==
    /\ resp = [op |-> "stop", code |-> 400]
    /\ \E j \in Registered : Job(j).status = "completed" /\ ~Job(j).cancelled

AllPassed(job) == \A k \in DOMAIN job.nodes : job.nodes[k].status = "passed"

\* C9: when the job worker has finished, the Job status is `cancelled` if
\* and only if the latch was raised while at least one Node had not reached
\* a terminal status; otherwise it is `completed` when every Node is
\* `passed` and `failed` when at least one is not. A Stop that arrives after
\* every Node has terminated as `passed` does not yield `cancelled`.
C9_CancelledIffRaisedEarly ==
    \A w \in DOMAIN workers :
        workers[w].pc = "done" =>
            LET job == objs[workers[w].job] IN
            /\ job.status = "cancelled" <=> raisedAt[workers[w].job] = "live"
            /\ job.status # "cancelled" =>
                  job.status = IF AllPassed(job) THEN "completed" ELSE "failed"

\* C9 as amended: the status the job worker writes when it finishes is
\* `cancelled` if and only if the cancel latch it holds is raised at that
\* moment, whether or not a Node was still running when Stop raised it;
\* otherwise it is `completed` when every Node is `passed` and `failed` when
\* at least one is not. A Stop accepted after every Node has terminated as
\* `passed`, but before the worker's last write, yields `cancelled`.
C9_FinalStatusByLatch ==
    [][\A w \in DOMAIN workers :
          workers[w].pc \in {"cancel", "final"} /\ workers'[w].pc # workers[w].pc
              => LET o == jobs[workers[w].job_id]
                     latch == objs[workers[w].job].cancelled
                 IN /\ objs'[o].status = "cancelled" <=> latch
                    /\ ~latch => objs'[o].status =
                          IF AllPassed(objs[o]) THEN "completed" ELSE "failed"]_vars

\* the worker has finished with `cancelled` although every Node had
\* terminated, all of them `passed`, when Stop raised the latch
C9_Witness ==
    \E w \in DOMAIN workers :
        /\ workers[w].pc = "done"
        /\ raisedAt[workers[w].job] = "settled"
        /\ objs[workers[w].job].status = "cancelled"
        /\ AllPassed(objs[workers[w].job])

\* the kinds of a results dict, in insertion order
Kinds(results) == [k \in DOMAIN results |-> results[k].kind]

IsPrefix(s, t) == Len(s) <= Len(t) /\ \A k \in DOMAIN s : s[k] = t[k]

\* the selected kinds in the order nvbandwidth, p2p, nccl, dcgm, ib
Canonical(tests) ==
    LET InTests(kind) == kind \in Range(tests)
    IN SelectSeq(<<"nvbandwidth", "p2p", "nccl", "dcgm", "ib">>, InTests)

ReturnsCancelled(wi) ==
    /\ Runner(wi).pc = "ret"
    /\ workers'[wi[1]].runners[wi[2]].pc = "done"
    /\ Runner(wi).out = "cancelled"
    /\ Len(Runner(wi).results) - Runner(wi).late >= 1

\* the Node record of runner wi after the step
NodeAfter(wi) == objs'[workers[wi[1]].job].nodes[wi[2]]

MidTests(j) ==
    \E wi \in Runners :
        /\ workers[wi[1]].job = jobs[j]
        /\ Len(Runner(wi).results) >= 1
        /\ Runner(wi).pc \in {"chk_test", "run_test", "chk_final"}

C12_DuplicateRejected ==
    [][\A p \in Payloads :
          api_create_job(p) /\ p.jobName \in Registered
              => /\ resp' = [op |-> "create", code |-> 400]
                 /\ jobs' = jobs
                 /\ objs' = objs
                 /\ workers' = workers]_vars

\* a request the claim calls invalid: no nodes, no tests, a node entry
\* lacking host, username or auth, or a dcgmLevel that is not in 1..4
InvalidRequest(p) ==
    \/ p.nodes = <<>>
    \/ p.tests = <<>>
    \/ \E k \in DOMAIN p.nodes : ~NodePayloadOk(p.nodes[k])
    \/ ~p.dcgmLevel.numeric
    \/ p.dcgmLevel.value \notin 1..4

\* C13: a Submit request with empty nodes, empty tests, a node lacking
\* host, username or auth, or a dcgmLevel outside 1..4 returns an error,
\* leaves the jobs map unchanged and spawns no worker.
C13_InvalidRejected ==
    [][\A p \in Payloads :
          api_create_job(p) /\ InvalidRequest(p)
              => /\ resp' = [op |-> "create", code |-> 400]
                 /\ jobs' = jobs
                 /\ objs' = objs
                 /\ workers' = workers]_vars

\* a Job view carries a connection record in one of its Nodes
HasConnection(view) ==
    \E k \in DOMAIN view.nodes :
        "connection" \in DOMAIN view.nodes[k] /\ view.nodes[k].connection

\* C14: no Job view returned by Get or List contains a `_connection` field
\* in any Node, in any reachable state (before, during and after the runners
\* execute), and the cancel latch is rendered as a boolean.
C14_ViewsWithoutConnection ==
    [][/\ \A j \in Registered :
             api_get_job(j)
                 => /\ ~HasConnection(api_get_job_data(j))
                    /\ api_get_job_data(j).cancelled \in BOOLEAN
       /\ api_list_jobs
             => \A view \in api_list_jobs_data :
                   ~HasConnection(view) /\ view.cancelled \in BOOLEAN]_vars

\* Get was answered 200 for a Job one of whose Nodes is running and still
\* holds its connection record, which the returned view lacks
C14_Witness ==
    /\ resp = [op |-> "get", code |-> 200]
    /\ \E j \in Registered :
          /\ \E k \in DOMAIN Job(j).nodes :
                Job(j).nodes[k].status = "running" /\ Job(j).nodes[k].connection
          /\ ~HasConnection(api_get_job_data(j))

\* results dicts of up to two entries with every status, `skipped` included
ResultsInputs ==
    LET St == {"passed", "skipped", "failed", "error"} IN
    {<<>>} \cup {<<[kind |-> "p2p", status |-> a]>> : a \in St}
           \cup {<<[kind |-> "p2p", status |-> a], [kind |-> "nccl", status |-> b]>> :
                    a \in St, b \in St}

\* the overall status the claim prescribes for a runner at its final check
Prescribed(flag, results) ==
    IF flag THEN "cancelled"
    ELSE IF \A k \in DOMAIN results : results[k].status \in {"passed", "skipped"}
    THEN "passed" ELSE "failed"

\* C15: the overall status a node runner returns is `cancelled` if the
\* latch is raised at its final check, otherwise `passed` if and only if
\* every TestResult it collected has status `passed` or `skipped`, otherwise
\* `failed`; a result with status `error` or `failed` always prevents `passed`.
C15_OverallStatus ==
    [][/\ \A wi \in Runners :
             Runner(wi).pc = "chk_final" /\ workers'[wi[1]].runners[wi[2]].pc = "ret"
                 => LET out == workers'[wi[1]].runners[wi[2]].out
                        results == Runner(wi).results
                    IN /\ out = Prescribed(Flag(wi[1]), results)
                       /\ (\E k \in DOMAIN results :
                              results[k].status \in {"error", "failed"}) => out # "passed"
       /\ \A results \in ResultsInputs :
             OverallStatus(results) = Prescribed(FALSE, results)]_vars

\* a runner whose latch is clear has returned `failed` from its final check
\* with one `passed` and one `error` result
C15_Witness ==
    \E wi \in Runners :
        /\ Runner(wi).pc = "ret"
        /\ ~Flag(wi[1])
        /\ Runner(wi).out = "failed"
        /\ \E k \in DOMAIN Runner(wi).results : Runner(wi).results[k].status = "passed"
        /\ \E k \in DOMAIN Runner(wi).results : Runner(wi).results[k].status = "error"

\* runner wi leaves run_node_check in this step through `except Exception`
Excepts(wi) ==
    Runner(wi).pc = "exc" /\ workers'[wi[1]].runners[wi[2]].pc = "done"

\* runner wi leaves run_node_check in this step
Finishes(wi) ==
    Runner(wi).pc \in {"ret", "exc"} /\ workers'[wi[1]].runners[wi[2]].pc = "done"

KindOf(wi) == TEST_ORDER[Runner(wi).pos]
RunnerAfter(wi) == workers'[wi[1]].runners[wi[2]]
LastResult(wi) == RunnerAfter(wi).results[Len(RunnerAfter(wi).results)]

\* the remote command exited non-zero or, for the kinds with a parser, its
\* output held no value
ToolError(kind, rem) ==
    /\ ~rem.raised
    /\ \/ rem.exit_code # 0
       \/ kind \in {"nvbandwidth", "p2p", "nccl"} /\ rem.value <= 0

\* C17: for every test kind, when the remote command exits non-zero or its
\* output cannot be parsed, the TestResult has status `error` with a
\* message, and the runner goes on to the next selected test.
C17_ToolErrorIsError ==
    [][\A wi \in Runners : \A rem \in Remotes :
          execute_test(wi[1], wi[2], rem) /\ ToolError(KindOf(wi), rem)
              => /\ LastResult(wi).status = "error"
                 /\ run_test(KindOf(wi), rem).message
                 /\ RunnerAfter(wi).pos =
                        NextPos(objs[workers[wi[1]].job].tests, Runner(wi).pos + 1)]_vars

\* C17 as amended: a call that raises gives `error` with a message for every
\* kind; a non-zero exit code or an output without a value gives `error` with
\* a message for nvbandwidth, p2p and nccl; a non-zero exit code gives
\* `failed` for dcgm, and for ib `passed` when the literal is in the output
\* and `failed` when it is not. Whatever the result, the runner goes on to
\* the check before the next selected test, and runs that test when the
\* latch is clear at that check.
C17_ToolErrorByKind ==
    [][/\ \A wi \in Runners : \A rem \in Remotes :
             execute_test(wi[1], wi[2], rem)
                 => LET kind == KindOf(wi)
                        res == run_test(kind, rem)
                        next == NextPos(objs[workers[wi[1]].job].tests, Runner(wi).pos + 1)
                    IN /\ LastResult(wi).status = res.status
                       /\ rem.raised => res = ErrorResult
                       /\ ToolError(kind, rem) /\ kind \in {"nvbandwidth", "p2p", "nccl"}
                             => res = ErrorResult
                       /\ ToolError(kind, rem) /\ kind = "dcgm"
                             => res.status = "failed" /\ ~res.message
                       /\ ToolError(kind, rem) /\ kind = "ib"
                             => /\ ~res.message
                                /\ res.status = IF rem.in_stdout \/ rem.in_stderr
                                                 THEN "passed" ELSE "failed"
                       /\ RunnerAfter(wi).pos = next
                       /\ RunnerAfter(wi).pc = TestPc(next)
       /\ \A wi \in Runners :
             Runner(wi).pc = "chk_test" /\ RunnerAfter(wi) # Runner(wi) /\ ~Flag(wi[1])
                 => RunnerAfter(wi).pc = "run_test" /\ RunnerAfter(wi).pos = Runner(wi).pos]_vars

\* a runner holds an `error` result for p2p, a `failed` result for dcgm
\* and a result for ib, the test selected after them
C17_Witness ==
    \E wi \in Runners :
        /\ Kinds(Runner(wi).results) = <<"p2p", "dcgm", "ib">>
        /\ Runner(wi).results[1].status = "error"
        /\ Runner(wi).results[2].status = "failed"

\* the kind of the engine call under evaluation, its remote behaviour, its result
CallIs(fn) == calc.fn = fn /\ calc.ret # <<>>

NumericKinds == {"nvbandwidth", "p2p", "nccl"}

Metric(kind) ==
    CASE kind = "nvbandwidth" -> "bw"
      [] kind = "p2p" -> "p2p"
      [] kind = "nccl" -> "nccl"

\* the commands of the test ran and exited with 0
Measured(kind, rem) ==
    /\ ~rem.raised
    /\ rem.exit_code = 0
    /\ kind = "nvbandwidth" => rem.d2h_exit = 0
    /\ kind = "nccl" => rem.gpu_count > 0

\* the positive values parsed for the test: both directions for nvbandwidth
ParsedPositive(kind, rem) ==
    {v \in (IF kind = "nvbandwidth" THEN {rem.value, rem.d2h_value} ELSE {rem.value}) :
        v > 0}

\* C18: a numeric test (nvbandwidth, p2p, nccl) that parsed a positive value
\* is `passed` if the table of benchmarks has no threshold for the node's
\* gpuType and metric or the value (the smaller direction for nvbandwidth)
\* reaches the threshold, and `failed` otherwise; without a threshold it is
\* `passed` whatever the value.
C18_ThresholdVerdict ==
    (CallIs("run_test") /\ calc.arg.kind \in NumericKinds
     /\ Measured(calc.arg.kind, calc.arg.rem)
     /\ ParsedPositive(calc.arg.kind, calc.arg.rem) # {})
    => LET kind == calc.arg.kind
           rem == calc.arg.rem
           absent == rem.gpu_type \notin DOMAIN GPU_BENCHMARKS
           status == calc.ret[1].status
       IN /\ absent => status = "passed"
          /\ ~absent =>
                LET threshold == GPU_BENCHMARKS[rem.gpu_type][Metric(kind)] IN
                status = IF \A v \in ParsedPositive(kind, rem) : v >= threshold
                         THEN "passed" ELSE "failed"

\* an nccl value of 6 on a node whose gpuType has no benchmarks is `passed`
C18_Witness ==
    /\ CallIs("run_test")
    /\ calc.arg.kind = "nccl"
    /\ Measured("nccl", calc.arg.rem)
    /\ calc.arg.rem.gpu_type = "Unknown"
    /\ calc.arg.rem.value = 6
    /\ calc.ret[1].status = "passed"

\* C19: whatever the exit code, the IB check passes if and only if the
\* literal of the IB script is in stdout or in stderr, in the bare-metal
\* engine (_run_ib_check) and in the cluster-mode workload (run_ib_check).
C19_LiteralDecides ==
    /\ (CallIs("run_test") /\ calc.arg.kind = "ib" /\ ~calc.arg.rem.raised)
       => (calc.ret[1].status = "passed"
           <=> (calc.arg.rem.in_stdout \/ calc.arg.rem.in_stderr))
    /\ (CallIs("run_ib_check") /\ calc.arg.enabled /\ ~calc.arg.rem.raised)
       => (calc.ret[1] = "Pass"
           <=> (calc.arg.rem.in_stdout \/ calc.arg.rem.in_stderr))

\* the values parse_nvbandwidth accepts: on a line whose first token starts
\* with a digit, the tokens from the second on that lie in [10, 1200] and
\* have no token that is not a number between the second token and them
AcceptedValues(output) ==
    {Float(output[l][i]) : <<l, i>> \in
        {li \in (1..MaxLines) \X (2..MaxTokens) :
            /\ li[1] \in DOMAIN output
            /\ li[2] \in DOMAIN output[li[1]]
            /\ IsDigit(output[li[1]][1])
            /\ \A k \in 2..li[2] : IsFloat(output[li[1]][k])
            /\ 10 <= Float(output[li[1]][li[2]])
            /\ Float(output[li[1]][li[2]]) <= 1200}}

\* C20: parse_nvbandwidth returns 0 or a value of [10, 1200]: the minimum of
\* the accepted tokens of the lines that start with a digit, each line read
\* from its second token up to its first token that is not a number, and 0
\* when no token is accepted.
C20_ParseNvbandwidth ==
    CallIs("parse_nvbandwidth")
    => LET r == calc.ret[1]
           accepted == AcceptedValues(calc.arg)
       IN /\ r = 0 \/ (10 <= r /\ r <= 1200)
          /\ accepted = {} => r = 0
          /\ accepted # {} => r \in accepted /\ \A v \in accepted : r <= v

\* the 10 behind the `x` of the second line is not read: the result is 1200
C20_Witness ==
    /\ CallIs("parse_nvbandwidth")
    /\ calc.arg = << <<"0", "1200">>, <<"10", "x", "10">> >>
    /\ calc.ret = <<1200>>

\* the lines parse_p2p has read when it stops: those before the first line
\* with the matrix-end literal
Scanned(output) ==
    {i \in DOMAIN output : \A k \in 1..i : output[k].mark # "end"}

\* the data rows collected: text lines behind the first matrix-begin line
\* whose first token is a number
DataRows(output) ==
    {i \in Scanned(output) :
        /\ \E b \in 1..(i - 1) : output[b].mark = "begin"
        /\ output[i].mark = "text"
        /\ output[i].parts # <<>>
        /\ IsDigits(output[i].parts[1])}

\* the strictly positive values whose column position differs from the
\* position of their row among the data rows collected
OffDiagonal(output) ==
    UNION {{Float(output[i].parts[c + 1]) : c \in
                {col \in 1..(Len(output[i].parts) - 1) :
                    /\ IsFloat(output[i].parts[col + 1])
                    /\ Float(output[i].parts[col + 1]) > 0
                    /\ col - 1 # Cardinality({j \in DataRows(output) : j < i})}} :
           i \in DataRows(output)}

\* C21: parse_p2p collects from the matrix-begin line to the matrix-end line
\* or the end of the input and returns the minimum of the strictly positive
\* values whose column position differs from the position of their row among
\* the data rows collected, and 0 when there is none; a matrix-end line
\* behind the input does not change the result.
C21_P2PMinOffDiagonal ==
    CallIs("parse_p2p")
    => LET r == calc.ret[1]
           kept == OffDiagonal(calc.arg)
       IN /\ kept = {} => r = 0
          /\ kept # {} => r \in kept /\ \A v \in kept : r <= v
          /\ parse_p2p(Append(calc.arg, P2PLine("end", <<>>))) = r

\* C22: parse_nccl returns the first token that is a number of the first line
\* with `Avg bus bandwidth`, and 0 when that line has no such token or no
\* line has the literal; a later line with the literal is never used.
C22_NcclFirstLineOnly ==
    CallIs("parse_nccl")
    => LET output == calc.arg
           with == {i \in DOMAIN output : output[i].avg}
           numbers(i) == {k \in DOMAIN output[i].parts : IsFloat(output[i].parts[k])}
       IN IF with = {} THEN calc.ret[1] = 0
          ELSE LET first == SetMin(with) IN
               calc.ret[1] = IF numbers(first) = {} THEN 0
                             ELSE Float(output[first].parts[SetMin(numbers(first))])

\* two rows are the row of the same (job_id, node_name) pair
SamePair(r1, r2) == r1.job_id = r2.job_id /\ r1.node_name = r2.node_name

\* the content columns of a row
ContentOf(row) ==
    [performance_pass |-> row.performance_pass, dcgm |-> row.dcgm, ib |-> row.ib,
     inspection_result |-> row.inspection_result]

\* C23: whatever ingestions run (started by the watcher, the operator or the
\* background task, at the same time or again over the same files),
\* diagnostic_results has at most one row per (job_id, node_name), a row
\* keeps its created_at, and a new row has the time of its insertion as
\* created_at.
C23_OneRowPerPair ==
    [][/\ \A r1, r2 \in diagnostic_results' : SamePair(r1, r2) => r1 = r2
       /\ \A row \in diagnostic_results :
             \E kept \in diagnostic_results' :
                SamePair(kept, row) /\ kept.created_at = row.created_at
       /\ \A new \in diagnostic_results' :
             (\A row \in diagnostic_results : ~SamePair(row, new))
                 => new.created_at = now' /\ now' > now]_vars

\* two ingestion runs have gone over the three files two Jobs have left on
\* the node: there are two rows, one of them from the first write
C23_Witness ==
    /\ runs.finished = 2
    /\ Len(volume) = 3
    /\ Cardinality(diagnostic_results) = 2
    /\ \E row \in diagnostic_results : row.created_at = 1

\* t is in the transaction of save_manual_diagnostic_result for a document
\* whose pair has a row, and takes the step
Reingests(t) ==
    /\ ingesters[t].pc = "write"
    /\ ingesters'[t] # ingesters[t]
    /\ ExistingRecord(volume[ingesters[t].i].data, diagnostic_results)

\* C24: the ingestion of a second artifact for a pair that has a row updates
\* the row in place: its content is that of the second artifact, updated_at
\* the time of the second ingestion, created_at unchanged.
C24_UpdatedInPlace ==
    [][\A t \in DOMAIN ingesters :
          Reingests(t)
              => LET data == volume[ingesters[t].i].data IN
                 /\ now' > now
                 /\ \E row \in diagnostic_results' :
                       /\ SamePair(row, data)
                       /\ ContentOf(row) = ContentOf(RowOf(data, 0, 0))
                       /\ row.updated_at = now'
                       /\ \E old \in diagnostic_results :
                             SamePair(old, data) /\ old.created_at = row.created_at]_vars

\* C25: once an ingestion run over the volume has finished, a further run
\* leaves every row of diagnostic_results with its content and its
\* created_at, and adds no row.
C25_Idempotent ==
    [][runs.finished >= 1
          => {<<r.job_id, r.node_name, ContentOf(r), r.created_at>> : r \in diagnostic_results'}
             = {<<r.job_id, r.node_name, ContentOf(r), r.created_at>> : r \in diagnostic_results}]_vars

\* one run has finished and a second one is in the transaction for the last
\* file, whose pair has a row
C25_Witness ==
    /\ runs.finished = 1
    /\ \E t \in DOMAIN ingesters :
          /\ ingesters[t].pc = "write"
          /\ ingesters[t].i = Len(volume)
          /\ ingesters[t].existing
    /\ diagnostic_results # {}

\* the values test_results.dcgm and test_results.ib can have
Verdicts == {"Pass", "No Pass", "Skipped", "Error", Missing}

\* performance_pass is true and dcgm and ib are Pass or Skipped, a missing
\* entry counting as Skipped
PassExpected(data) ==
    /\ data.performance_pass
    /\ data.dcgm \in {"Pass", "Skipped", Missing}
    /\ data.ib \in {"Pass", "Skipped", Missing}

\* C26: the inspection_result stored for an ingested artifact is `Pass` if
\* and only if its performance_pass is true and its test_results.dcgm and
\* test_results.ib are Pass or Skipped (a missing entry counts as Skipped),
\* and `No Pass` otherwise; every row holds the values of an artifact of its
\* pair.
C26_InspectionResult ==
    /\ \A row \in diagnostic_results :
          /\ row.inspection_result = IF PassExpected(row) THEN "Pass" ELSE "No Pass"
          /\ \E i \in DOMAIN volume :
                /\ SamePair(volume[i].data, row)
                /\ volume[i].data.performance_pass = row.performance_pass
                /\ volume[i].data.dcgm = row.dcgm
                /\ volume[i].data.ib = row.ib
    /\ \A data \in [performance_pass : BOOLEAN, dcgm : Verdicts, ib : Verdicts] :
          inspection_result_of(data) = IF PassExpected(data) THEN "Pass" ELSE "No Pass"

\* a row stored as `No Pass` for a failed IB check next to a row stored as
\* `Pass` for an artifact without dcgm entry
C26_Witness ==
    /\ \E row \in diagnostic_results :
          /\ row.performance_pass /\ row.dcgm = "Pass" /\ row.ib = "No Pass"
          /\ row.inspection_result = "No Pass"
    /\ \E row \in diagnostic_results :
          /\ row.dcgm = Missing
          /\ row.inspection_result = "Pass"

\* the mapped status of a workload phase, as handle_pod_status_change maps it
Mapped(phase) ==
    convert_kubectl_status_to_standard(
        Lower(phase),
        IF phase = "Running" THEN [ready_count |-> 1, total_count |-> 1]
        ELSE [ready_count |-> 0, total_count |-> 1])

\* a step in which the native watcher handles event for a Job of the database
Handles(event) ==
    /\ watcher.strategy = "native"
    /\ event.job_id \in DOMAIN diagnostic_jobs
    /\ watch_event(event)

\* C27: at every time while the watcher is enabled (status_check_running)
\* some strategy is running: a strategy that has used up its retry budget
\* has started the next one.
C27_SomeStrategyRuns ==
    watcher.status_check_running => watcher.strategy # "none"

\* C28: after the watcher has handled a workload event of a known Job, the
\* ingestion it triggered included, the stored status of the Job equals the
\* mapped status of the workload's phase (compared without regard to case).
C28_StoredEqualsMapped ==
    [][\A event \in PodEvents :
          Handles(event) /\ event.type # "DELETED"
          => Lower(diagnostic_jobs'[event.job_id]) = Lower(Mapped(event.phase))]_vars

\* C29: every MODIFIED event whose mapped status is terminal, for a known
\* Job, calls the ingester for the Job and publishes a job_status_change
\* event, whether or not the mapped status differs from the stored one.
C29_TerminalEventIngests ==
    [][\A event \in PodEvents :
          Handles(event) /\ event.type = "MODIFIED" /\ Mapped(event.phase) \in TerminalStatuses
          => /\ runs'.started = runs.started + 1
             /\ Len(sse') > Len(sse)
             /\ sse'[Len(sse) + 1] = StatusChange(event.job_id, Mapped(event.phase))]_vars

\* C30: stopping a Job sets its stored status to cancelled, and stopping a
\* Job whose stored status is completed does not change its status.
C30_StopCancels ==
    [][\A job_id \in DOMAIN diagnostic_jobs :
          stop_gpu_inspection_job(job_id)
          => diagnostic_jobs'[job_id] =
                 IF Lower(diagnostic_jobs[job_id]) = "completed" THEN diagnostic_jobs[job_id]
                 ELSE "cancelled"]_vars

\* the steps made while jobs_lock is held: the `with jobs_lock` sections of
\* api_create_job, api_stop_job and run_job
UnderJobsLock == Stop \/ WorkerStart \/ WorkerCancel \/ WorkerFinal \/ Submit

\* C33: the job worker that has seen the latch raised at a runner completion
\* and has set the Job to `cancelled` terminates without waiting for the
\* runners that are still executing or queued: its last step is enabled
\* whatever the runners are doing.
C33_WorkerDoesNotWait ==
    \A w \in DOMAIN workers :
        workers[w].pc = "shutdown" => ENABLED run_job_shutdown(w)

\* C34: every write to the status of a Job or of a Node is made while the
\* jobs mutex is held.
C34_StatusWritesLocked ==
    [][\A o \in DOMAIN objs :
          (\/ objs'[o].status # objs[o].status
           \/ \E k \in DOMAIN objs[o].nodes :
                 objs'[o].nodes[k].status # objs[o].nodes[k].status)
          => UnderJobsLock]_vars

\* C38: a Job whose status is `completed` or `failed` has no Node in status
\* `pending` or `running`, also when a second Submit has reused the jobId
\* while the worker of the first was running.
C38_FinishedJobNodesTerminal ==
    \A j \in Registered :
        Job(j).status \in {"completed", "failed"} =>
            \A k \in DOMAIN Job(j).nodes :
                Job(j).nodes[k].status \notin {"pending", "running"}

\* the Nodes of job dict o that are in status `running`
RunningNodes(o) == {k \in DOMAIN objs[o].nodes : objs[o].nodes[k].status = "running"}

AlreadyIngested(file) ==
    IF file.latest
    THEN \E row \in diagnostic_results : row.node_name = file.node
    ELSE \E row \in diagnostic_results : SamePair(row, file.data)

\* C36: the ingester treats a file as already ingested exactly when a row
\* exists for the (job_id, node_name) pair of the file (for a latest file:
\* any row of the node), and it skips such a file without attempting a write.
C36_SkipsIngestedFiles ==
    [][\A t \in DOMAIN ingesters :
          ingest_check(t)
              => (ingesters'[t].pc = "check" <=> AlreadyIngested(volume[ingesters[t].i]))]_vars

\* C35: the native watcher counts consecutive failures: a subscription that
\* succeeds (its stream delivers an event) resets the failure count, so that
\* failures separated by successful subscriptions never add up to the
\* fallback.
C35_SuccessResetsCount ==
    [][\A event \in PodEvents :
          watcher.strategy = "native" /\ watch_event(event)
              => watcher'.retry_count = 0]_vars

\* C39: every submitted Job eventually reaches a terminal status
\* (completed, failed or cancelled) and its worker terminates, under fair
\* scheduling and with every remote command returning, whatever Stop
\* requests are interleaved.
C39_EveryJobTerminates ==
    \A o \in 1..MaxJobs :
        (o \in DOMAIN objs)
            ~> (/\ o \in DOMAIN objs
                /\ objs[o].status \in {"completed", "failed", "cancelled"}
                /\ workers[o].pc = "done")


\* C37: publish removes a subscriber whose queue would block, so the backlog
\* of a subscriber that stops reading stays bounded: a registered subscriber
\* never has every one of MaxEvents published events waiting in its queue.
C37_BacklogBounded ==
    \A c \in sse_clients : Len(client_queue[c]) < MaxEvents

\* C40: a publish that ends has put its event on the queue of every
\* subscriber that was registered when it began and still is, whatever other
\* clients did meanwhile; and when the status check thread ends its publish
\* of job_status_change, however it ends, handle_job_completion is next.
C40_PublishReachesRegistered ==
    [][\A t \in Callers :
          (publishers[t].pc = "notify" /\ publishers'[t].pc # "notify") =>
              /\ (publishers[t].start \cap sse_clients') \subseteq publishers[t].visited
              /\ (t = "watcher" /\ publishers[t].message.type = "job_status_change")
                     => publishers'[t].pc = "ingest"]_vars

\* C31: the events are published in one order and every subscriber receives
\* them in that order: two events that two subscribers both received were
\* received in the same order by both.
C31_ReceivedInPublishOrder ==
    \A c, d \in Clients :
        \A i, j \in 1..Len(streams[c].received), k, l \in 1..Len(streams[d].received) :
            (/\ i < j
             /\ streams[c].received[i] = streams[d].received[k]
             /\ streams[c].received[j] = streams[d].received[l]) => k < l

====
